---- MODULE Spec2Model ----
(***************************************************************************)
(* fTornado: a Tornado-style shielded pool (incremental Merkle tree with   *)
(* root history, commitment and nullifier registries, proof-gated wrap and *)
(* withdraw) combined with an ERC7984 confidential ledger and a two-phase  *)
(* unwrap.  Sources: contracts/fTornado.sol, contracts/ERC7984.sol.        *)
(*                                                                         *)
(* Every external call of the contract is one action.  A call that reverts *)
(* restores the storage it started from (EVM revert), so each operation is *)
(* an operator from the storage before the call to a result record         *)
(* [st, err, events, ret]; err = NoError means the call succeeded.         *)
(*                                                                         *)
(* Amounts are counted in units of 2^60, so euint64 arithmetic (modulo     *)
(* 2^64) is arithmetic modulo 2^4 on unit counts.  A euint64 handle is     *)
(* modelled by its clear value; the uninitialized handle bytes32(0) is     *)
(* NoHandle.                                                               *)
(***************************************************************************)
EXTENDS Integers, Sequences, FiniteSets, TLC

(***************************************************************************)
(* Bounds of the model.                                                    *)
(***************************************************************************)
\* height of the membership tree (31 in the deployed configuration)
LEVELS == 2
\* number of roots the history buffer retains
ROOT_HISTORY_SIZE == 2
\* unwrap is not called once currentPendingIndex reaches this value
MaxUnwraps == 2
\* number of successful calls in a run
MaxCalls == 5
\* number of notes (secret, nullifier) the users know
NumNotes == 4
\* block timestamps and approval times range over 1..MaxTime (0: no approval)
MaxTime == 2
\* number of insert calls the proof script starts together
MaxInserts == 3

(***************************************************************************)
(* Addresses, amounts, notes.                                              *)
(***************************************************************************)
ZeroAddress == 0
Alice == 1
Bob == 2
\* address(this)
Pool == 3

Users == {Alice, Bob}
Addresses == {ZeroAddress, Alice, Bob, Pool}

\* euint64 values wrap modulo 2^64 = 2^4 units of 2^60
UINT64_MODULUS == 16
NoHandle == -1

\* constructor parameter _denomination, in units: three notes fit in a euint64
Denominations == {6}
\* a denomination of which two notes do not fit in a euint64
LargeDenomination == 8

NoError == "ok"

\* uint256(uint160(address))
AddrToUint(a) == a

Notes == 1..NumNotes
\* getCommitment: commitment = H(secret, nullifier), nullifierHash = H(nullifier);
\* note k's two hashes are modelled as distinct field elements
NoteCommitment(k) == k + 1
NoteNullifierHash(k) == 10 + k
NullifierHashDomain == {NoteNullifierHash(k) : k \in Notes}

(***************************************************************************)
(* MembershipHistory: incremental Merkle tree with a ring buffer of roots. *)
(***************************************************************************)
\* two-input compression function, modelled by Cantor pairing (injective)
hashLeftRight(left, right) == ((left + right) * (left + right + 1)) \div 2 + right

\* the empty-leaf seed
ZERO_VALUE == 1

RECURSIVE zeros(_)
zeros(i) == IF i = 0 THEN ZERO_VALUE ELSE hashLeftRight(zeros(i - 1), zeros(i - 1))

RECURSIVE Pow2(_)
Pow2(n) == IF n = 0 THEN 1 ELSE 2 * Pow2(n - 1)

Revert(s, msg) == [st |-> s, err |-> msg, events |-> <<>>, ret |-> -1]
Done(s, ev, ret) == [st |-> s, err |-> NoError, events |-> ev, ret |-> ret]

\* the leaf-to-root loop of _insert: only the path of the new leaf is rehashed
RECURSIVE insertLoop(_, _, _, _)
insertLoop(fs, currentIndex, currentLevelHash, i) ==
  IF i = LEVELS THEN [filledSubtrees |-> fs, root |-> currentLevelHash]
  ELSE IF currentIndex % 2 = 0
       THEN insertLoop([fs EXCEPT ![i] = currentLevelHash], currentIndex \div 2,
                       hashLeftRight(currentLevelHash, zeros(i)), i + 1)
       ELSE insertLoop(fs, currentIndex \div 2,
                       hashLeftRight(fs[i], currentLevelHash), i + 1)

\* mutant: a full tree starts again at leaf 0
_insert_wrapsAround(s, leaf) ==
  LET idx == s.nextIndex % Pow2(LEVELS)
      r == insertLoop(s.filledSubtrees, idx, leaf, 0)
      newRootIndex == (s.currentRootIndex + 1) % ROOT_HISTORY_SIZE
  IN Done([s EXCEPT !.filledSubtrees = r.filledSubtrees,
                    !.leaves = IF s.nextIndex < Pow2(LEVELS) THEN Append(@, leaf)
                               ELSE [@ EXCEPT ![idx + 1] = leaf],
                    !.currentRootIndex = newRootIndex,
                    !.roots = [@ EXCEPT ![newRootIndex] = r.root],
                    !.nextIndex = idx + 1],
          <<>>, idx)

_insert(s, leaf) ==
  IF s.nextIndex = Pow2(LEVELS) THEN Revert(s, "Merkle tree is full")
  ELSE LET r == insertLoop(s.filledSubtrees, s.nextIndex, leaf, 0)
           newRootIndex == (s.currentRootIndex + 1) % ROOT_HISTORY_SIZE
       IN Done([s EXCEPT !.filledSubtrees = r.filledSubtrees,
                         !.leaves = Append(@, leaf),
                         !.currentRootIndex = newRootIndex,
                         !.roots = [@ EXCEPT ![newRootIndex] = r.root],
                         !.nextIndex = @ + 1],
               <<>>, s.nextIndex)

\* mutant: only the current root is accepted
isKnownRoot_currentOnly(s, root) ==
  IF root = 0 THEN FALSE ELSE s.roots[s.currentRootIndex] = root

isKnownRoot(s, root) ==
  IF root = 0 THEN FALSE
  ELSE \E i \in 0..(ROOT_HISTORY_SIZE - 1) : s.roots[i] = root

getLastRoot(s) == s.roots[s.currentRootIndex]

(***************************************************************************)
(* External asset (IERC20) custody.                                        *)
(***************************************************************************)
\* token.transferFrom(from, to, amount): false without allowance or balance
transferFrom(s, from, to, amount, approved) ==
  IF ~approved \/ s.tokenBalance[from] < amount THEN Revert(s, "transferFrom failed")
  ELSE Done([s EXCEPT !.tokenBalance =
               [[@ EXCEPT ![from] = @ - amount] EXCEPT ![to] = @ + amount]], <<>>, 1)

\* token.transfer(to, amount) sent by the pool
transfer(s, to, amount) ==
  IF s.tokenBalance[Pool] < amount THEN Revert(s, "transfer failed")
  ELSE Done([s EXCEPT !.tokenBalance =
               [[@ EXCEPT ![Pool] = @ - amount] EXCEPT ![to] = @ + amount]], <<>>, 1)

(***************************************************************************)
(* FHE primitives on euint64 handles and FHESafeMath.                      *)
(***************************************************************************)
\* mutant: a handle of the encrypted 0 counts as uninitialized
isInitialized_nonZero(h) == h # NoHandle /\ h # 0

isInitialized(h) == h # NoHandle
\* an uninitialized operand of FHE.add/FHE.sub is the encrypted 0
clear(h) == IF isInitialized(h) THEN h ELSE 0
FHE_add(a, b) == (clear(a) + clear(b)) % UINT64_MODULUS
FHE_sub(a, b) == (clear(a) - clear(b) + UINT64_MODULUS) % UINT64_MODULUS
FHE_select(c, a, b) == IF c THEN a ELSE b

tryIncrease(oldValue, delta) ==
  IF ~isInitialized(oldValue) THEN [success |-> TRUE, updated |-> delta]
  ELSE LET newValue == FHE_add(oldValue, delta)
           success == newValue >= oldValue
       IN [success |-> success, updated |-> FHE_select(success, newValue, oldValue)]

\* mutant: the decrease is applied without comparing
tryDecrease_alwaysSucceeds(oldValue, delta) ==
  [success |-> TRUE, updated |-> FHE_sub(oldValue, delta)]

tryDecrease(oldValue, delta) ==
  IF ~isInitialized(oldValue) THEN [success |-> (clear(delta) = 0), updated |-> 0]
  ELSE LET success == oldValue >= delta
       IN [success |-> success,
           updated |-> FHE_select(success, FHE_sub(oldValue, delta), oldValue)]

(***************************************************************************)
(* Access control of the handles kept in storage.  Every FHE operation     *)
(* returns a new handle, allowed to nobody; FHE.allow and FHE.allowThis    *)
(* add an account to the list of the handle.  The model keeps one list per *)
(* storage slot: wrappedDenomination, _totalSupply, _balances[a].          *)
(* FHESafeMath.tryIncrease returns its argument delta itself when the old  *)
(* value is not initialized, so the first mint stores the handle of its    *)
(* amount in _totalSupply; that amount is wrappedDenomination (wrap is the *)
(* only caller of _mint), and supplyIsDenomination records that the two    *)
(* slots hold one handle.                                                  *)
(***************************************************************************)
InitialACL ==
  [wrappedDenomination |-> {Pool}, totalSupply |-> {},
   balances |-> [a \in Addresses |-> {}], supplyIsDenomination |-> FALSE]

\* FHE.allowThis(wrappedDenomination) of the constructor, FHE.allow(wrappedDenomination, account)
allowDenomination(s, account) ==
  [s EXCEPT !.acl.wrappedDenomination = @ \cup {account}]

\* the accounts allowed on the handle stored in _totalSupply
supplyACL(s) ==
  IF s.acl.supplyIsDenomination THEN s.acl.wrappedDenomination ELSE s.acl.totalSupply

\* _totalSupply = ptr; FHE.allowThis(ptr), for ptr the result of an operation
\* or (aliased) the amount of the first mint
writeSupplyACL(s, aliased) ==
  IF aliased
  THEN [s EXCEPT !.acl.supplyIsDenomination = TRUE,
                 !.acl.wrappedDenomination = @ \cup {Pool}]
  ELSE [s EXCEPT !.acl.supplyIsDenomination = FALSE, !.acl.totalSupply = {Pool}]

\* mutant: the account is not allowed on its new balance handle
writeBalanceACL_engineOnly(s, account) ==
  [s EXCEPT !.acl.balances[account] = {Pool}]

\* _balances[account] = ptr; FHE.allowThis(ptr); FHE.allow(ptr, account)
writeBalanceACL(s, account) ==
  [s EXCEPT !.acl.balances[account] = {Pool, account}]

(***************************************************************************)
(* ERC7984 confidential ledger.                                            *)
(***************************************************************************)
\* mutant: the requested amount is credited even when the debit failed
_update_creditsRequested(s, from, to, amount) ==
  IF from # ZeroAddress /\ ~isInitialized(s.balances[from])
  THEN Revert(s, "ERC7984ZeroBalance")
  ELSE LET r == IF from = ZeroAddress THEN tryIncrease(s.totalSupply, amount)
                ELSE tryDecrease(s.balances[from], amount)
           s1 == IF from = ZeroAddress THEN [s EXCEPT !.totalSupply = r.updated]
                 ELSE [s EXCEPT !.balances[from] = r.updated]
           transferred == FHE_select(r.success, amount, 0)
           s2 == IF to = ZeroAddress
                 THEN [s1 EXCEPT !.totalSupply = FHE_sub(s1.totalSupply, amount)]
                 ELSE [s1 EXCEPT !.balances[to] = FHE_add(s1.balances[to], amount)]
       IN Done(s2, <<[name |-> "ConfidentialTransfer", from |-> from, to |-> to,
                      amount |-> transferred]>>, transferred)

\* mutant: the sender's balance handle need not be initialized
_update_noZeroBalanceCheck(s, from, to, amount) ==
  LET r == IF from = ZeroAddress THEN tryIncrease(s.totalSupply, amount)
           ELSE tryDecrease(s.balances[from], amount)
      s1 == IF from = ZeroAddress THEN [s EXCEPT !.totalSupply = r.updated]
            ELSE [s EXCEPT !.balances[from] = r.updated]
      transferred == FHE_select(r.success, amount, 0)
      s2 == IF to = ZeroAddress
            THEN [s1 EXCEPT !.totalSupply = FHE_sub(s1.totalSupply, transferred)]
            ELSE [s1 EXCEPT !.balances[to] = FHE_add(s1.balances[to], transferred)]
  IN Done(s2, <<[name |-> "ConfidentialTransfer", from |-> from, to |-> to,
                 amount |-> transferred]>>, transferred)

\* _update(from, to, amount); ret is the clear value of `transferred`
_update(s, from, to, amount) ==
  IF from # ZeroAddress /\ ~isInitialized(s.balances[from])
  THEN Revert(s, "ERC7984ZeroBalance")
  ELSE LET r == IF from = ZeroAddress THEN tryIncrease(s.totalSupply, amount)
                ELSE tryDecrease(s.balances[from], amount)
           s1 == IF from = ZeroAddress
                 THEN writeSupplyACL([s EXCEPT !.totalSupply = r.updated],
                                     ~isInitialized(s.totalSupply))
                 ELSE writeBalanceACL([s EXCEPT !.balances[from] = r.updated], from)
           transferred == FHE_select(r.success, amount, 0)
           s2 == IF to = ZeroAddress
                 THEN writeSupplyACL(
                        [s1 EXCEPT !.totalSupply = FHE_sub(s1.totalSupply, transferred)], FALSE)
                 ELSE writeBalanceACL(
                        [s1 EXCEPT !.balances[to] = FHE_add(s1.balances[to], transferred)], to)
       IN Done(s2, <<[name |-> "ConfidentialTransfer", from |-> from, to |-> to,
                      amount |-> transferred]>>, transferred)

\* mutant: the receiver of a mint is not checked
_mint_anyReceiver(s, to, amount) == _update(s, ZeroAddress, to, amount)

_mint(s, to, amount) ==
  IF to = ZeroAddress THEN Revert(s, "ERC7984InvalidReceiver")
  ELSE _update(s, ZeroAddress, to, amount)

_burn(s, from, amount) ==
  IF from = ZeroAddress THEN Revert(s, "ERC7984InvalidSender")
  ELSE _update(s, from, ZeroAddress, amount)

_transfer(s, from, to, amount) ==
  IF from = ZeroAddress THEN Revert(s, "ERC7984InvalidSender")
  ELSE IF to = ZeroAddress THEN Revert(s, "ERC7984InvalidReceiver")
  ELSE _update(s, from, to, amount)

\* mutant: an approval never expires
isOperator_neverExpires(s, holder, spender) ==
  holder = spender \/ s.operators[holder][spender] > 0

\* isOperator(holder, spender) at block.timestamp = s.timestamp
isOperator(s, holder, spender) ==
  holder = spender \/ s.timestamp <= s.operators[holder][spender]

\* setOperator(operator, until) sent by sender
setOperator(s, sender, operator, until) ==
  Done([s EXCEPT !.operators[sender][operator] = until],
       <<[name |-> "OperatorSet", holder |-> sender, operator |-> operator,
          until |-> until]>>, -1)

\* mutant: any caller may move the tokens of `from`
confidentialTransferFrom_anySpender(s, sender, from, to, amount, allowed) ==
  IF ~allowed THEN Revert(s, "ERC7984UnauthorizedUseOfEncryptedAmount")
  ELSE _transfer(s, from, to, amount)

\* confidentialTransferFrom(from, to, euint64 amount) sent by sender; allowed
\* tells whether sender may use the amount handle
confidentialTransferFrom(s, sender, from, to, amount, allowed) ==
  IF ~allowed THEN Revert(s, "ERC7984UnauthorizedUseOfEncryptedAmount")
  ELSE IF ~isOperator(s, from, sender) THEN Revert(s, "ERC7984UnauthorizedSpender")
  ELSE _transfer(s, from, to, amount)

\* confidentialTransfer(to, externalEuint64, inputProof) sent by sender
confidentialTransfer(s, sender, to, amount) == _transfer(s, sender, to, amount)

\* the answers of a receiver to onConfidentialTransferReceived: the encrypted
\* true, the encrypted false, or a revert (a contract without the callback)
CallbackResults == {"true", "false", "revert"}

\* ERC7984Utils.checkOnTransferReceived(operator, from, to, amount, data):
\* the callback of the receiver, which moves no tokens; it reverts when the
\* callback reverts.  The pool itself has no callback.
checkOnTransferReceived(to, callback) ==
  IF to = Pool THEN "revert" ELSE callback

\* mutant: the refund is attempted when the callback succeeded
_transferAndCall_refundsOnSuccess(s, from, to, amount, callback) ==
  LET r1 == _transfer(s, from, to, amount)
      success == checkOnTransferReceived(to, callback)
      r2 == _update(r1.st, to, from, FHE_select(success = "true", r1.ret, 0))
  IN IF r1.err # NoError THEN Revert(s, r1.err)
     ELSE IF success = "revert" THEN Revert(s, "ERC7984InvalidReceiver")
     ELSE IF r2.err # NoError THEN Revert(s, r2.err)
     ELSE Done(r2.st, r1.events \o r2.events, FHE_sub(r1.ret, r2.ret))

\* _transferAndCall(from, to, amount, data); ret is the clear value of
\* `transferred`
_transferAndCall(s, from, to, amount, callback) ==
  LET r1 == _transfer(s, from, to, amount)
      success == checkOnTransferReceived(to, callback)
      r2 == _update(r1.st, to, from, FHE_select(success = "true", 0, r1.ret))
  IN IF r1.err # NoError THEN Revert(s, r1.err)
     ELSE IF success = "revert" THEN Revert(s, "ERC7984InvalidReceiver")
     ELSE IF r2.err # NoError THEN Revert(s, r2.err)
     ELSE Done(r2.st, r1.events \o r2.events, FHE_sub(r1.ret, r2.ret))

\* confidentialTransferAndCall(to, externalEuint64, inputProof, data) sent by sender
confidentialTransferAndCall(s, sender, to, amount, callback) ==
  _transferAndCall(s, sender, to, amount, callback)

(***************************************************************************)
(* External capabilities: proof verifier and decryption oracle.            *)
(***************************************************************************)
\* A proof is modelled by the public-signal vector it was generated for;
\* wellFormed is false for bytes that abi.decode rejects.
MalformedProof == [wellFormed |-> FALSE, signals |-> <<>>]
GarbageProof == [wellFormed |-> TRUE, signals |-> <<>>]
ProofFor(signals) == [wellFormed |-> TRUE, signals |-> signals]

\* IVerifier.verifyProof(pA, pB, pC, pubSignals)
verifyProof(proof, pubSignals) == proof.signals = pubSignals

\* mutant: the signatures are checked against the handle only
checkSignatures_ignoresAmount(handle, clearAmount, decryptionProof) ==
  decryptionProof # <<>> /\ decryptionProof[1] = handle

\* FHE.checkSignatures(cts, abiEncodedClearAmount, decryptionProof): the
\* proof is modelled by the pair (handle, clear value) the oracle signed
checkSignatures(handle, clearAmount, decryptionProof) ==
  decryptionProof = <<handle, clearAmount>>

(***************************************************************************)
(* fTornado: internal functions.                                           *)
(***************************************************************************)
EmptyPendingUnwrap == [user |-> ZeroAddress, commitment |-> 0, actualAmount |-> NoHandle]

\* mutant: the deposit is accepted without taking the asset
_processDeposit_free(s, sender, approved) == Done(s, <<>>, 1)

_processDeposit(s, sender, approved) ==
  LET r == transferFrom(s, sender, Pool, s.denomination, approved)
  IN IF r.err # NoError THEN Revert(s, "fTornado: insuff bal/allowance") ELSE r

\* mutant: the index returned is read after the insertion
_insertToMerkle_indexAfter(s, _commitment) ==
  IF _commitment \in s.commitments THEN Revert(s, "The commitment has been submitted")
  ELSE LET r == _insert(s, _commitment)
       IN IF r.err # NoError THEN Revert(s, r.err)
          ELSE Done([r.st EXCEPT !.commitments = @ \cup {_commitment}], <<>>, r.st.nextIndex)

\* mutant: a registered commitment is inserted again
_insertToMerkle_noDuplicateCheck(s, _commitment) ==
  LET r == _insert(s, _commitment)
  IN IF r.err # NoError THEN Revert(s, r.err)
     ELSE Done([r.st EXCEPT !.commitments = @ \cup {_commitment}], <<>>, r.ret)

\* mutant: the commitment is inserted and not registered
_insertToMerkle_notRegistered(s, _commitment) ==
  IF _commitment \in s.commitments THEN Revert(s, "The commitment has been submitted")
  ELSE _insert(s, _commitment)

_insertToMerkle(s, _commitment) ==
  IF _commitment \in s.commitments THEN Revert(s, "The commitment has been submitted")
  ELSE LET r == _insert(s, _commitment)
       IN IF r.err # NoError THEN Revert(s, r.err)
          ELSE Done([r.st EXCEPT !.commitments = @ \cup {_commitment}], <<>>, r.ret)

_processConfidentialDeposit(s, sender) ==
  LET r == confidentialTransferFrom(allowDenomination(s, sender), sender, sender, Pool,
                                    s.denomination, TRUE)
  IN IF r.err # NoError THEN Revert(s, r.err) ELSE r

\* mutant: half the denomination is released
_processWithdraw_half(s, _recipient) ==
  LET r == transfer(s, _recipient, s.denomination \div 2)
  IN IF r.err # NoError THEN Revert(s, "fTornado: insuff bal") ELSE r

_processWithdraw(s, _recipient) ==
  LET r == transfer(s, _recipient, s.denomination)
  IN IF r.err # NoError THEN Revert(s, "fTornado: insuff bal") ELSE r

isSpent(s, _nullifierHash) == _nullifierHash \in s.nullifierHashes

getPendingUnwrap(s, _index) == s.pendingUnwraps[_index]

(***************************************************************************)
(* fTornado: external functions.                                           *)
(***************************************************************************)
\* mutant: a failed transfer-in keeps the inserted leaf
deposit_noRollback(s, sender, _commitment, approved) ==
  LET r1 == _insertToMerkle(s, _commitment)
      r2 == _processDeposit(r1.st, sender, approved)
  IN IF r1.err # NoError THEN Revert(s, r1.err)
     ELSE IF r2.err # NoError THEN Revert(r1.st, r2.err)
     ELSE Done(r2.st, <<[name |-> "Deposit", commitment |-> _commitment,
                         leafIndex |-> r1.ret]>>, -1)

deposit(s, sender, _commitment, approved) ==
  LET r1 == _insertToMerkle(s, _commitment)
      r2 == _processDeposit(r1.st, sender, approved)
  IN IF r1.err # NoError THEN Revert(s, r1.err)
     ELSE IF r2.err # NoError THEN Revert(s, r2.err)
     ELSE Done(r2.st, <<[name |-> "Deposit", commitment |-> _commitment,
                         leafIndex |-> r1.ret]>>, -1)

\* mutant: the order register, transfer-in, insert
depositSteps_registerFirst(s, sender, _commitment, approved) ==
  IF _commitment \in s.commitments THEN <<>>
  ELSE LET b == [s EXCEPT !.commitments = @ \cup {_commitment}]
           t == _processDeposit(b, sender, approved)
           a == _insert(t.st, _commitment)
       IN IF t.err # NoError THEN <<[step |-> "register", st |-> b]>>
          ELSE IF a.err # NoError
               THEN <<[step |-> "register", st |-> b], [step |-> "transferIn", st |-> t.st]>>
          ELSE <<[step |-> "register", st |-> b], [step |-> "transferIn", st |-> t.st],
                 [step |-> "insert", st |-> a.st]>>

\* the steps deposit goes through, statement by statement, each with the
\* storage it leaves: _insert (line 339), commitments[c] = true (line 340),
\* token.transferFrom (line 332).  A step that reverts ends the sequence.
depositSteps(s, sender, _commitment, approved) ==
  IF _commitment \in s.commitments THEN <<>>
  ELSE LET a == _insert(s, _commitment)
           b == [a.st EXCEPT !.commitments = @ \cup {_commitment}]
           t == _processDeposit(b, sender, approved)
       IN IF a.err # NoError THEN <<>>
          ELSE IF t.err # NoError
               THEN <<[step |-> "insert", st |-> a.st], [step |-> "register", st |-> b]>>
          ELSE <<[step |-> "insert", st |-> a.st], [step |-> "register", st |-> b],
                 [step |-> "transferIn", st |-> t.st]>>

\* mutant: wrap does not look the nullifier hash up
wrapChecks_noSpentCheck(s, _proof, _root, _recipient, _nullifierHash, _relayer, _fee, _refund) ==
  IF ~isKnownRoot(s, _root) THEN "Cannot find your merkle root"
  ELSE IF ~_proof.wellFormed THEN "abi.decode"
  ELSE IF ~verifyProof(_proof, <<_root, AddrToUint(_recipient), _nullifierHash,
                                 AddrToUint(_relayer), _fee, _refund>>)
       THEN "Invalid wrap proof"
  ELSE NoError

\* mutant: wrap looks at the proof before the nullifier hash and the root
wrapChecks_proofFirst(s, _proof, _root, _recipient, _nullifierHash, _relayer, _fee, _refund) ==
  IF ~_proof.wellFormed THEN "abi.decode"
  ELSE IF ~verifyProof(_proof, <<_root, AddrToUint(_recipient), _nullifierHash,
                                 AddrToUint(_relayer), _fee, _refund>>)
       THEN "Invalid wrap proof"
  ELSE IF _nullifierHash \in s.nullifierHashes THEN "The note has been already spent"
  ELSE IF ~isKnownRoot(s, _root) THEN "Cannot find your merkle root"
  ELSE NoError

\* mutant: recipient and relayer are exchanged in the public-signal vector
wrapChecks_swappedSignals(s, _proof, _root, _recipient, _nullifierHash, _relayer, _fee, _refund) ==
  IF _nullifierHash \in s.nullifierHashes THEN "The note has been already spent"
  ELSE IF ~isKnownRoot(s, _root) THEN "Cannot find your merkle root"
  ELSE IF ~_proof.wellFormed THEN "abi.decode"
  ELSE IF ~verifyProof(_proof, <<_root, AddrToUint(_relayer), _nullifierHash,
                                 AddrToUint(_recipient), _fee, _refund>>)
       THEN "Invalid wrap proof"
  ELSE NoError

\* the three require checks of wrap, in order; NoError when all pass
wrapChecks(s, _proof, _root, _recipient, _nullifierHash, _relayer, _fee, _refund) ==
  IF _nullifierHash \in s.nullifierHashes THEN "The note has been already spent"
  ELSE IF ~isKnownRoot(s, _root) THEN "Cannot find your merkle root"
  ELSE IF ~_proof.wellFormed THEN "abi.decode"
  ELSE IF ~verifyProof(_proof, <<_root, AddrToUint(_recipient), _nullifierHash,
                                 AddrToUint(_relayer), _fee, _refund>>)
       THEN "Invalid wrap proof"
  ELSE NoError

\* mutant: wrap reports itself with the event of withdraw
wrap_emitsWithdraw(s, _proof, _root, _recipient, _nullifierHash, _relayer, _fee, _refund) ==
  LET chk == wrapChecks(s, _proof, _root, _recipient, _nullifierHash, _relayer, _fee, _refund)
      s1 == [s EXCEPT !.nullifierHashes = @ \cup {_nullifierHash}]
      r == _mint(s1, _recipient, s.denomination)
  IN IF chk # NoError THEN Revert(s, chk)
     ELSE IF r.err # NoError THEN Revert(s, r.err)
     ELSE Done(r.st, r.events \o <<[name |-> "Withdraw", user |-> _recipient,
                                    nullifierHash |-> _nullifierHash]>>, -1)

wrap(s, _proof, _root, _recipient, _nullifierHash, _relayer, _fee, _refund) ==
  LET chk == wrapChecks(s, _proof, _root, _recipient, _nullifierHash, _relayer, _fee, _refund)
      s1 == [s EXCEPT !.nullifierHashes = @ \cup {_nullifierHash}]
      r == _mint(s1, _recipient, s.denomination)
  IN IF chk # NoError THEN Revert(s, chk)
     ELSE IF r.err # NoError THEN Revert(s, r.err)
     ELSE Done(r.st, r.events \o <<[name |-> "Wrap", user |-> _recipient,
                                    nullifierHash |-> _nullifierHash]>>, -1)

\* mutant: unwrap reverts when the transfer moved nothing
unwrap_revertsWhenInsufficient(s, sender, _commitment) ==
  LET r == _processConfidentialDeposit(s, sender)
      previousPendingIndex == s.currentPendingIndex
      rec == [user |-> sender, commitment |-> _commitment, actualAmount |-> r.ret]
  IN IF r.err # NoError THEN Revert(s, r.err)
     ELSE IF r.ret = 0 THEN Revert(s, "insufficient balance")
     ELSE Done([r.st EXCEPT !.pendingUnwraps[previousPendingIndex] = rec,
                            !.currentPendingIndex = @ + 1],
               r.events \o <<[name |-> "PendingUnwrapEvent", user |-> rec.user,
                              commitment |-> rec.commitment,
                              actualAmount |-> rec.actualAmount,
                              pendingUnwrapIndex |-> previousPendingIndex]>>,
               previousPendingIndex)

\* mutant: the record holds the handle of the sender's new balance
unwrap_recordsBalance(s, sender, _commitment) ==
  LET r == _processConfidentialDeposit(s, sender)
      previousPendingIndex == s.currentPendingIndex
      rec == [user |-> sender, commitment |-> _commitment,
              actualAmount |-> r.st.balances[sender]]
  IN IF r.err # NoError THEN Revert(s, r.err)
     ELSE Done([r.st EXCEPT !.pendingUnwraps[previousPendingIndex] = rec,
                            !.currentPendingIndex = @ + 1],
               r.events \o <<[name |-> "PendingUnwrapEvent", user |-> rec.user,
                              commitment |-> rec.commitment,
                              actualAmount |-> rec.actualAmount,
                              pendingUnwrapIndex |-> previousPendingIndex]>>,
               previousPendingIndex)

\* mutant: the pending counter is not incremented
unwrap_reusesIndex(s, sender, _commitment) ==
  LET r == _processConfidentialDeposit(s, sender)
      previousPendingIndex == s.currentPendingIndex
      rec == [user |-> sender, commitment |-> _commitment, actualAmount |-> r.ret]
  IN IF r.err # NoError THEN Revert(s, r.err)
     ELSE Done([r.st EXCEPT !.pendingUnwraps[previousPendingIndex] = rec],
               r.events \o <<[name |-> "PendingUnwrapEvent", user |-> rec.user,
                              commitment |-> rec.commitment,
                              actualAmount |-> rec.actualAmount,
                              pendingUnwrapIndex |-> previousPendingIndex]>>,
               previousPendingIndex)

unwrap(s, sender, _commitment) ==
  LET r == _processConfidentialDeposit(s, sender)
      previousPendingIndex == s.currentPendingIndex
      rec == [user |-> sender, commitment |-> _commitment, actualAmount |-> r.ret]
  IN IF r.err # NoError THEN Revert(s, r.err)
     ELSE Done([r.st EXCEPT !.pendingUnwraps[previousPendingIndex] = rec,
                            !.currentPendingIndex = @ + 1],
               r.events \o <<[name |-> "PendingUnwrapEvent", user |-> rec.user,
                              commitment |-> rec.commitment,
                              actualAmount |-> rec.actualAmount,
                              pendingUnwrapIndex |-> previousPendingIndex]>>,
               previousPendingIndex)

\* mutant: the record is not deleted
finalizeUnwrap_noDelete(s, _pendingUnwrapIndex, clearAmount, _decryptionProof) ==
  LET pendingUnwrap == s.pendingUnwraps[_pendingUnwrapIndex]
      r1 == _insertToMerkle(s, pendingUnwrap.commitment)
      r2 == _burn(r1.st, Pool, s.denomination)
      ev(name) == [name |-> name, user |-> pendingUnwrap.user,
                   commitment |-> pendingUnwrap.commitment,
                   actualAmount |-> pendingUnwrap.actualAmount,
                   pendingUnwrapIndex |-> _pendingUnwrapIndex]
  IN IF pendingUnwrap.user = ZeroAddress THEN Revert(s, "tF: Already processed")
     ELSE IF ~checkSignatures(pendingUnwrap.actualAmount, clearAmount, _decryptionProof)
          THEN Revert(s, "InvalidKMSSignatures")
     ELSE IF clearAmount # 0
          THEN IF r1.err # NoError THEN Revert(s, r1.err)
               ELSE IF r2.err # NoError THEN Revert(s, r2.err)
               ELSE Done(r2.st, r2.events \o <<ev("UnwrapFinalized")>>, -1)
     ELSE Done(s, <<ev("UnwrapFailed")>>, -1)

\* mutant: the commitment is inserted in the failure branch too
finalizeUnwrap_insertsOnFailure(s, _pendingUnwrapIndex, clearAmount, _decryptionProof) ==
  LET pendingUnwrap == s.pendingUnwraps[_pendingUnwrapIndex]
      r1 == _insertToMerkle(s, pendingUnwrap.commitment)
      r2 == _burn(r1.st, Pool, s.denomination)
      ev(name) == [name |-> name, user |-> pendingUnwrap.user,
                   commitment |-> pendingUnwrap.commitment,
                   actualAmount |-> pendingUnwrap.actualAmount,
                   pendingUnwrapIndex |-> _pendingUnwrapIndex]
      clearStorage(t) == [t EXCEPT !.pendingUnwraps[_pendingUnwrapIndex] = EmptyPendingUnwrap]
  IN IF pendingUnwrap.user = ZeroAddress THEN Revert(s, "tF: Already processed")
     ELSE IF ~checkSignatures(pendingUnwrap.actualAmount, clearAmount, _decryptionProof)
          THEN Revert(s, "InvalidKMSSignatures")
     ELSE IF r1.err # NoError THEN Revert(s, r1.err)
     ELSE IF clearAmount # 0
          THEN IF r2.err # NoError THEN Revert(s, r2.err)
               ELSE Done(clearStorage(r2.st), r2.events \o <<ev("UnwrapFinalized")>>, -1)
     ELSE Done(clearStorage(r1.st), <<ev("UnwrapFailed")>>, -1)

finalizeUnwrap(s, _pendingUnwrapIndex, clearAmount, _decryptionProof) ==
  LET pendingUnwrap == s.pendingUnwraps[_pendingUnwrapIndex]
      r1 == _insertToMerkle(s, pendingUnwrap.commitment)
      r2 == _burn(r1.st, Pool, s.denomination)
      ev(name) == [name |-> name, user |-> pendingUnwrap.user,
                   commitment |-> pendingUnwrap.commitment,
                   actualAmount |-> pendingUnwrap.actualAmount,
                   pendingUnwrapIndex |-> _pendingUnwrapIndex]
      clearStorage(t) == [t EXCEPT !.pendingUnwraps[_pendingUnwrapIndex] = EmptyPendingUnwrap]
  IN IF pendingUnwrap.user = ZeroAddress THEN Revert(s, "tF: Already processed")
     ELSE IF ~checkSignatures(pendingUnwrap.actualAmount, clearAmount, _decryptionProof)
          THEN Revert(s, "InvalidKMSSignatures")
     ELSE IF clearAmount # 0
          THEN IF r1.err # NoError THEN Revert(s, r1.err)
               ELSE IF r2.err # NoError THEN Revert(s, r2.err)
               ELSE Done(clearStorage(r2.st), r2.events \o <<ev("UnwrapFinalized")>>, -1)
     ELSE Done(clearStorage(s), <<ev("UnwrapFailed")>>, -1)

\* mutant: only the user of the record may finalize it
finalizeUnwrapBy_ownerOnly(s, sender, _pendingUnwrapIndex, clearAmount, _decryptionProof) ==
  IF s.pendingUnwraps[_pendingUnwrapIndex].user # sender THEN Revert(s, "tF: not the user")
  ELSE finalizeUnwrap(s, _pendingUnwrapIndex, clearAmount, _decryptionProof)

\* finalizeUnwrap sent by sender: the function does not read msg.sender
finalizeUnwrapBy(s, sender, _pendingUnwrapIndex, clearAmount, _decryptionProof) ==
  finalizeUnwrap(s, _pendingUnwrapIndex, clearAmount, _decryptionProof)

\* mutant: withdraw checks the root before the nullifier hash
withdrawChecks_rootFirst(s, _proof, _root, _recipient, _nullifierHash, _relayer, _fee, _refund) ==
  IF ~isKnownRoot(s, _root) THEN "Cannot find your merkle root"
  ELSE IF _nullifierHash \in s.nullifierHashes THEN "The note has been already spent"
  ELSE IF ~_proof.wellFormed THEN "abi.decode"
  ELSE IF ~verifyProof(_proof, <<_root, AddrToUint(_recipient), _nullifierHash,
                                 AddrToUint(_relayer), _fee, _refund>>)
       THEN "Invalid withdraw proof"
  ELSE NoError

\* the three require checks of withdraw, in order; NoError when all pass
withdrawChecks(s, _proof, _root, _recipient, _nullifierHash, _relayer, _fee, _refund) ==
  IF _nullifierHash \in s.nullifierHashes THEN "The note has been already spent"
  ELSE IF ~isKnownRoot(s, _root) THEN "Cannot find your merkle root"
  ELSE IF ~_proof.wellFormed THEN "abi.decode"
  ELSE IF ~verifyProof(_proof, <<_root, AddrToUint(_recipient), _nullifierHash,
                                 AddrToUint(_relayer), _fee, _refund>>)
       THEN "Invalid withdraw proof"
  ELSE NoError

\* mutant: the fee is paid to the relayer out of the denomination
withdraw_paysRelayer(s, _proof, _root, _recipient, _nullifierHash, _relayer, _fee, _refund) ==
  LET chk == withdrawChecks(s, _proof, _root, _recipient, _nullifierHash, _relayer, _fee, _refund)
      s1 == [s EXCEPT !.nullifierHashes = @ \cup {_nullifierHash}]
      r1 == transfer(s1, _recipient, s.denomination - _fee)
      r == transfer(r1.st, _relayer, _fee)
  IN IF chk # NoError THEN Revert(s, chk)
     ELSE IF r1.err # NoError \/ r.err # NoError THEN Revert(s, "fTornado: insuff bal")
     ELSE Done(r.st, <<[name |-> "Withdraw", user |-> _recipient,
                        nullifierHash |-> _nullifierHash]>>, -1)

withdraw(s, _proof, _root, _recipient, _nullifierHash, _relayer, _fee, _refund) ==
  LET chk == withdrawChecks(s, _proof, _root, _recipient, _nullifierHash, _relayer, _fee, _refund)
      s1 == [s EXCEPT !.nullifierHashes = @ \cup {_nullifierHash}]
      r == _processWithdraw(s1, _recipient)
  IN IF chk # NoError THEN Revert(s, chk)
     ELSE IF r.err # NoError THEN Revert(s, r.err)
     ELSE Done(r.st, <<[name |-> "Withdraw", user |-> _recipient,
                        nullifierHash |-> _nullifierHash]>>, -1)

\* mutant: the nullifier hash is marked after the asset transfer
withdrawReentered_spendsAfterTransfer(s, _proof, _root, _recipient, _nullifierHash, _relayer, _fee, _refund, innerOp) ==
  LET chk == withdrawChecks(s, _proof, _root, _recipient, _nullifierHash, _relayer, _fee, _refund)
      ri == IF innerOp = "wrap"
            THEN wrap(s, _proof, _root, _recipient, _nullifierHash, _relayer, _fee, _refund)
            ELSE withdraw(s, _proof, _root, _recipient, _nullifierHash, _relayer, _fee, _refund)
      r == _processWithdraw(ri.st, _recipient)
      s2 == [r.st EXCEPT !.nullifierHashes = @ \cup {_nullifierHash}]
  IN IF chk # NoError THEN Revert(s, chk)
     ELSE IF r.err # NoError THEN Revert(s, r.err)
     ELSE [st |-> s2, err |-> NoError,
           events |-> ri.events \o <<[name |-> "Withdraw", user |-> _recipient,
                                      nullifierHash |-> _nullifierHash]>>,
           ret |-> -1, inner |-> ri.err]

\* withdraw with an asset whose transfer calls back into the pool (the
\* contract has no reentrancy guard): while token.transfer runs, the callee
\* replays the call as innerOp (wrap or withdraw) with the same arguments; a
\* revert of the inner call is caught by the callee.  inner is the outcome
\* of the inner call.
withdrawReentered(s, _proof, _root, _recipient, _nullifierHash, _relayer, _fee, _refund, innerOp) ==
  LET chk == withdrawChecks(s, _proof, _root, _recipient, _nullifierHash, _relayer, _fee, _refund)
      s1 == [s EXCEPT !.nullifierHashes = @ \cup {_nullifierHash}]
      ri == IF innerOp = "wrap"
            THEN wrap(s1, _proof, _root, _recipient, _nullifierHash, _relayer, _fee, _refund)
            ELSE withdraw(s1, _proof, _root, _recipient, _nullifierHash, _relayer, _fee, _refund)
      r == _processWithdraw(ri.st, _recipient)
  IN IF chk # NoError THEN Revert(s, chk)
     ELSE IF r.err # NoError THEN Revert(s, r.err)
     ELSE [st |-> r.st, err |-> NoError,
           events |-> ri.events \o <<[name |-> "Withdraw", user |-> _recipient,
                                      nullifierHash |-> _nullifierHash]>>,
           ret |-> -1, inner |-> ri.err]

\* the error taxonomy of the protocol
ErrorKind(msg) ==
  CASE msg = "The note has been already spent" -> "AlreadySpent"
    [] msg = "Cannot find your merkle root" -> "UnknownRoot"
    [] msg \in {"Invalid wrap proof", "Invalid withdraw proof", "abi.decode"} -> "InvalidProof"
    [] msg = "The commitment has been submitted" -> "AlreadyPresent"
    [] msg = "Merkle tree is full" -> "StructureFull"
    [] msg = "tF: Already processed" -> "AlreadyProcessed"
    [] msg = "InvalidKMSSignatures" -> "InvalidDisclosureProof"
    [] msg = "ERC7984ZeroBalance" -> "ZeroBalance"
    [] msg \in {"fTornado: insuff bal/allowance", "fTornado: insuff bal"} -> "AssetTransferFailed"
    [] OTHER -> msg

(***************************************************************************)
(* State.                                                                  *)
(***************************************************************************)
VARIABLES
  leaves,               \* the leaves inserted so far, in leaf-index order
  filledSubtrees,       \* MerkleTreeWithHistory.filledSubtrees
  roots,                \* MerkleTreeWithHistory.roots (ring buffer)
  currentRootIndex,
  nextIndex,
  commitments,          \* fTornado.commitments (values mapped to true)
  nullifierHashes,      \* fTornado.nullifierHashes (values mapped to true)
  pendingUnwraps,
  currentPendingIndex,
  balances,             \* ERC7984._balances
  totalSupply,          \* ERC7984._totalSupply
  tokenBalance,         \* balances of the wrapped IERC20
  acl,                  \* who may decrypt the handles kept in storage
  operators,            \* ERC7984._operators[holder][spender]
  timestamp,            \* block.timestamp of the next call
  denomination,
  last,                 \* the last call: operation, key argument, outcome, and the
                        \* outcome of the call made from inside it ("none" without one)
  hist,                 \* history kept for stating the properties
  merkleTree,           \* the reference MerkleTree of the proof scripts
  inserts,              \* its insert calls started together, in call order
  launching             \* the calls are still being started

vars == <<leaves, filledSubtrees, roots, currentRootIndex, nextIndex, commitments,
          nullifierHashes, pendingUnwraps, currentPendingIndex, balances,
          totalSupply, tokenBalance, acl, operators, timestamp, denomination, last,
          hist, merkleTree, inserts, launching>>

\* the variables of the pool, and those of the proof scripts
poolVars == <<leaves, filledSubtrees, roots, currentRootIndex, nextIndex, commitments,
              nullifierHashes, pendingUnwraps, currentPendingIndex, balances,
              totalSupply, tokenBalance, acl, operators, timestamp, denomination, last,
              hist>>
scriptVars == <<merkleTree, inserts, launching>>

Storage ==
  [leaves |-> leaves, filledSubtrees |-> filledSubtrees, roots |-> roots,
   currentRootIndex |-> currentRootIndex, nextIndex |-> nextIndex,
   commitments |-> commitments, nullifierHashes |-> nullifierHashes,
   pendingUnwraps |-> pendingUnwraps, currentPendingIndex |-> currentPendingIndex,
   balances |-> balances, totalSupply |-> totalSupply, tokenBalance |-> tokenBalance,
   acl |-> acl, operators |-> operators, timestamp |-> timestamp,
   denomination |-> denomination]

PendingIndices == 0..MaxUnwraps

\* the state the constructor leaves, for denomination d
InitWith(d) ==
  /\ leaves = <<>>
  /\ filledSubtrees = [i \in 0..(LEVELS - 1) |-> zeros(i)]
  /\ roots = [i \in 0..(ROOT_HISTORY_SIZE - 1) |-> IF i = 0 THEN zeros(LEVELS) ELSE 0]
  /\ currentRootIndex = 0
  /\ nextIndex = 0
  /\ commitments = {}
  /\ nullifierHashes = {}
  /\ pendingUnwraps = [i \in PendingIndices |-> EmptyPendingUnwrap]
  /\ currentPendingIndex = 0
  /\ balances = [a \in Addresses |-> NoHandle]
  /\ totalSupply = NoHandle
  /\ acl = InitialACL
  /\ operators = [h \in Addresses |-> [sp \in Addresses |-> 0]]
  /\ timestamp = 1
  /\ denomination = d
  /\ tokenBalance = [a \in Addresses |->
                       IF a \in Users THEN 2 * denomination ELSE 0]
  /\ last = [op |-> "constructor", key |-> 0, err |-> NoError, events |-> <<>>, ret |-> -1,
             inner |-> "none"]
  /\ merkleTree = [levels |-> LEVELS, capacity |-> Pow2(LEVELS),
                   _zeroSubTrees |-> [i \in 0..LEVELS |-> zeros(i)],
                   _layers |-> [i \in 0..LEVELS |-> <<>>]]
  /\ inserts = <<>>
  /\ launching = TRUE
  /\ hist = [rootLog |-> <<>>, consumed |-> [n \in NullifierHashDomain |-> 0],
             finalized |-> {}, finalizedNonZero |-> 0, minted |-> 0, burned |-> 0,
             deposits |-> 0, withdraws |-> 0, withdrawsToPool |-> 0,
             depositsOnly |-> TRUE,
             unwrapIndices |-> <<>>, calls |-> 0]

Init == \E d \in Denominations : InitWith(d)

RECURSIVE MintedIn(_)
\* the amount minted according to the ConfidentialTransfer events of evs
MintedIn(evs) ==
  IF evs = <<>> THEN 0
  ELSE (IF Head(evs).name = "ConfidentialTransfer" /\ Head(evs).from = ZeroAddress
        THEN Head(evs).amount ELSE 0) + MintedIn(Tail(evs))

RECURSIVE BurnedIn(_)
\* the amount burned according to the ConfidentialTransfer events of evs
BurnedIn(evs) ==
  IF evs = <<>> THEN 0
  ELSE (IF Head(evs).name = "ConfidentialTransfer" /\ Head(evs).to = ZeroAddress
        THEN Head(evs).amount ELSE 0) + BurnedIn(Tail(evs))

\* the effect of a call with result r: storage, the record of the call, history
Apply(op, key, r) ==
  LET ok == r.err = NoError
      t == r.st
  IN /\ leaves' = t.leaves
     /\ filledSubtrees' = t.filledSubtrees
     /\ roots' = t.roots
     /\ currentRootIndex' = t.currentRootIndex
     /\ nextIndex' = t.nextIndex
     /\ commitments' = t.commitments
     /\ nullifierHashes' = t.nullifierHashes
     /\ pendingUnwraps' = t.pendingUnwraps
     /\ currentPendingIndex' = t.currentPendingIndex
     /\ balances' = t.balances
     /\ totalSupply' = t.totalSupply
     /\ tokenBalance' = t.tokenBalance
     /\ acl' = t.acl
     /\ operators' = t.operators
     /\ timestamp' = t.timestamp
     /\ denomination' = t.denomination
     /\ last' = [op |-> op, key |-> key, err |-> r.err, events |-> r.events, ret |-> r.ret,
                 inner |-> IF "inner" \in DOMAIN r THEN r.inner ELSE "none"]
     /\ UNCHANGED scriptVars
     /\ hist' = [hist EXCEPT
          !.rootLog = IF Len(t.leaves) > Len(leaves) THEN Append(@, getLastRoot(t)) ELSE @,
          !.consumed = IF ok /\ op \in {"wrap", "withdraw"}
                       THEN [@ EXCEPT ![key] = @ + 1] ELSE @,
          !.finalized = IF ok /\ op = "finalizeUnwrap" THEN @ \cup {key} ELSE @,
          !.finalizedNonZero =
             IF ok /\ op = "finalizeUnwrap"
                   /\ r.events[Len(r.events)].name = "UnwrapFinalized"
             THEN @ + 1 ELSE @,
          !.minted = @ + MintedIn(r.events),
          !.burned = @ + BurnedIn(r.events),
          !.deposits = IF ok /\ op = "deposit" THEN @ + 1 ELSE @,
          !.withdraws = IF ok /\ op = "withdraw" THEN @ + 1 ELSE @,
          !.withdrawsToPool =
             IF ok /\ op = "withdraw" /\ r.events[Len(r.events)].user = Pool
             THEN @ + 1 ELSE @,
          !.depositsOnly = @ /\ (ok => op = "deposit"),
          !.unwrapIndices = IF ok /\ op = "unwrap" THEN Append(@, r.ret) ELSE @,
          !.calls = IF ok THEN @ + 1 ELSE @]

(***************************************************************************)
(* Inputs of the calls.                                                    *)
(***************************************************************************)
\* <<recipient, relayer, fee, refund>>
CallShapes == {<<Alice, Bob, 1, 0>>, <<Bob, Bob, 0, 1>>, <<Pool, ZeroAddress, 1, 1>>,
               <<ZeroAddress, Alice, 0, 0>>}

\* roots a caller may submit: every root ever produced, the empty root, zero
RootArgs == {hist.rootLog[j] : j \in 1..Len(hist.rootLog)} \cup {zeros(LEVELS), 0}

\* the statements a caller can prove who builds the witness as the helpers
\* do (getPath of an inserted leaf, isLeft 0 or 1): some note with this
\* nullifier hash has its commitment among the leaves of the tree whose root
\* is signals[1].  The relation of the circuit itself is wrapOrWithdraw.
CircuitSatisfiable(signals) ==
  \E k \in Notes :
     /\ signals[3] = NoteNullifierHash(k)
     /\ \E j \in 1..Len(hist.rootLog) :
          /\ hist.rootLog[j] = signals[1]
          /\ \E i \in 1..j : leaves[i] = NoteCommitment(k)

\* proofs a caller can submit with the public signals sig: the proof of sig
\* or of sig with recipient and relayer exchanged (when the relation holds),
\* well-formed garbage, malformed bytes
ProofChoices(sig) ==
  {ProofFor(t) : t \in {u \in {sig, <<sig[1], sig[4], sig[3], sig[2], sig[5], sig[6]>>} :
                          CircuitSatisfiable(u)}}
    \cup {GarbageProof, MalformedProof}

\* decryption proofs obtainable for the record at index i: the oracle signs
\* the true clear value of a disclosed handle; anything else is a forgery
DecryptionProofs(i) ==
  {<<>>} \cup (IF pendingUnwraps[i].user # ZeroAddress
               THEN {<<pendingUnwraps[i].actualAmount, pendingUnwraps[i].actualAmount>>}
               ELSE {})

\* commitments a caller submits: one already submitted (to deposit or to
\* unwrap), the empty-leaf seed, or the commitment of the first unused note
\* (the notes are interchangeable)
UsedCommitments ==
  commitments \cup {pendingUnwraps[i].commitment : i \in {j \in PendingIndices :
                                                     pendingUnwraps[j].user # ZeroAddress}}
UnusedNotes == {k \in Notes : NoteCommitment(k) \notin UsedCommitments}
CommitmentArgs ==
  UsedCommitments \cup {ZERO_VALUE}
    \cup {NoteCommitment(k) : k \in {j \in UnusedNotes : \A i \in UnusedNotes : j <= i}}

TransferAmounts == {denomination \div 2}

(***************************************************************************)
(* Actions: one per external call.                                         *)
(***************************************************************************)
\* A reverted call leaves the storage as it was, so the runs in which calls
\* follow a reverted call add no storage state: a run ends at its first
\* reverted call, or after MaxCalls successful calls.
Running == last.err = NoError /\ hist.calls < MaxCalls

Deposit ==
  /\ Running
  /\ \E sender \in Users, c \in CommitmentArgs, approved \in BOOLEAN :
        Apply("deposit", c, deposit(Storage, sender, c, approved))

Wrap ==
  /\ Running
  /\ \E root \in RootArgs, n \in NullifierHashDomain, a \in CallShapes :
       \E proof \in ProofChoices(<<root, AddrToUint(a[1]), n, AddrToUint(a[2]), a[3], a[4]>>) :
          Apply("wrap", n, wrap(Storage, proof, root, a[1], n, a[2], a[3], a[4]))

Withdraw ==
  /\ Running
  /\ \E root \in RootArgs, n \in NullifierHashDomain, a \in CallShapes :
       \E proof \in ProofChoices(<<root, AddrToUint(a[1]), n, AddrToUint(a[2]), a[3], a[4]>>) :
          Apply("withdraw", n, withdraw(Storage, proof, root, a[1], n, a[2], a[3], a[4]))

\* the callback happens only in a call that reaches the asset transfer; a
\* call refused by the checks is the action Withdraw
WithdrawReentered ==
  /\ Running
  /\ \E root \in RootArgs, n \in NullifierHashDomain, a \in CallShapes :
       \E proof \in ProofChoices(<<root, AddrToUint(a[1]), n, AddrToUint(a[2]), a[3], a[4]>>) :
          /\ withdrawChecks(Storage, proof, root, a[1], n, a[2], a[3], a[4]) = NoError
          /\ \E innerOp \in {"wrap", "withdraw"} :
               Apply("withdraw", n,
                     withdrawReentered(Storage, proof, root, a[1], n, a[2], a[3], a[4], innerOp))

Unwrap ==
  /\ Running
  /\ currentPendingIndex < MaxUnwraps
  /\ \E sender \in Users, c \in CommitmentArgs :
        Apply("unwrap", c, unwrap(Storage, sender, c))

FinalizeUnwrap ==
  /\ Running
  /\ \E sender \in Users, i \in PendingIndices, clearAmount \in {0, denomination} :
       \E p \in DecryptionProofs(i) :
          Apply("finalizeUnwrap", i, finalizeUnwrapBy(Storage, sender, i, clearAmount, p))

ConfidentialTransfer ==
  /\ Running
  /\ \E sender \in Users, to \in Addresses, amount \in TransferAmounts :
        Apply("confidentialTransfer", to, confidentialTransfer(Storage, sender, to, amount))

ConfidentialTransferAndCall ==
  /\ Running
  /\ \E sender \in Users, to \in Addresses, amount \in TransferAmounts,
        callback \in CallbackResults :
        Apply("confidentialTransferAndCall", to,
              confidentialTransferAndCall(Storage, sender, to, amount, callback))

SetOperator ==
  /\ Running
  /\ \E sender \in Users, operator \in Users, until \in 0..MaxTime :
        /\ operator # sender
        /\ Apply("setOperator", operator, setOperator(Storage, sender, operator, until))

ConfidentialTransferFrom ==
  /\ Running
  /\ \E sender \in Users, from \in Users \cup {Pool}, to \in Addresses,
        amount \in TransferAmounts :
        Apply("confidentialTransferFrom", from,
              confidentialTransferFrom(Storage, sender, from, to, amount, TRUE))

\* a later block; the time matters only while some approval has not expired
Tick ==
  /\ Running
  /\ timestamp < MaxTime
  /\ \E h \in Addresses, sp \in Addresses : operators[h][sp] >= timestamp
  /\ timestamp' = timestamp + 1
  /\ UNCHANGED <<leaves, filledSubtrees, roots, currentRootIndex, nextIndex, commitments,
                 nullifierHashes, pendingUnwraps, currentPendingIndex, balances,
                 totalSupply, tokenBalance, acl, operators, denomination, last, hist,
                 scriptVars>>

Next ==
  \/ Deposit
  \/ Wrap
  \/ Withdraw
  \/ WithdrawReentered
  \/ Unwrap
  \/ FinalizeUnwrap
  \/ ConfidentialTransfer

\* the pool with all the operations of its ledger, the asset being a token
\* that does not call back
NextLedger ==
  \/ Deposit
  \/ Wrap
  \/ Withdraw
  \/ Unwrap
  \/ FinalizeUnwrap
  \/ ConfidentialTransfer
  \/ ConfidentialTransferAndCall
  \/ SetOperator
  \/ ConfidentialTransferFrom
  \/ Tick

SpecLedger == Init /\ [][NextLedger]_vars

Spec == Init /\ [][Next]_vars

\* the same pool deployed with the large denomination
SpecLargeDenomination == InitWith(LargeDenomination) /\ [][Next]_vars

(***************************************************************************)
(* The reference MerkleTree of the circuit tests (helpers/merkleTree.js).  *)
(* A JavaScript array is a sequence; the element at index k is the         *)
(* (k + 1)-th.  Sequential insertion writes an array at an index below its *)
(* length or at its length.                                                *)
(***************************************************************************)
\* the seed of the reference tree, taken equal to the seed of the contract
DEFAULT_ZERO == ZERO_VALUE

\* the hash helper: Poseidon with two inputs, as in the contract
hash(left, right) == hashLeftRight(left, right)

\* the value JavaScript gives for a read outside an array
undefined == -2

ArrayGet(arr, index) == IF index >= 0 /\ index < Len(arr) THEN arr[index + 1] ELSE undefined
ArraySet(arr, index, v) == IF index < Len(arr) THEN [arr EXCEPT ![index + 1] = v] ELSE Append(arr, v)

RECURSIVE zeroSubTree(_, _)
\* init(): _zeroSubTrees[i] = hash(_zeroSubTrees[i-1], _zeroSubTrees[i-1])
zeroSubTree(zeroHash, i) ==
  IF i = 0 THEN zeroHash ELSE hash(zeroSubTree(zeroHash, i - 1), zeroSubTree(zeroHash, i - 1))

\* new MerkleTree(levels, hash, zeroHash) followed by init()
MerkleTree(levels, zeroHash) ==
  [levels |-> levels, capacity |-> Pow2(levels),
   _zeroSubTrees |-> [i \in 0..levels |-> zeroSubTree(zeroHash, i)],
   _layers |-> [i \in 0..levels |-> <<>>]]

RECURSIVE MerkleTree_insertLevels_zeroOfLevel(_, _, _)
\* mutant: an absent right child is replaced by the empty subtree one level up
MerkleTree_insertLevels_zeroOfLevel(t, index, i) ==
  IF i > t.levels THEN t
  ELSE LET idx == index \div 2
           below == t._layers[i - 1]
           h == hash(ArrayGet(below, 2 * idx),
                     IF idx * 2 + 1 < Len(below) THEN ArrayGet(below, 2 * idx + 1)
                     ELSE t._zeroSubTrees[i])
       IN MerkleTree_insertLevels_zeroOfLevel([t EXCEPT !._layers[i] = ArraySet(@, idx, h)],
                                              idx, i + 1)

RECURSIVE MerkleTree_insertLevels(_, _, _)
\* the loop of _insert from level i on; index is the index written at level i - 1
MerkleTree_insertLevels(t, index, i) ==
  IF i > t.levels THEN t
  ELSE LET idx == index \div 2
           below == t._layers[i - 1]
           h == hash(ArrayGet(below, 2 * idx),
                     IF idx * 2 + 1 < Len(below) THEN ArrayGet(below, 2 * idx + 1)
                     ELSE t._zeroSubTrees[i - 1])
       IN MerkleTree_insertLevels([t EXCEPT !._layers[i] = ArraySet(@, idx, h)], idx, i + 1)

MerkleTree__insert(t, element, index) ==
  MerkleTree_insertLevels([t EXCEPT !._layers[0] = ArraySet(@, index, element)], index, 1)

MerkleTree_insert(t, element) ==
  LET index == Len(t._layers[0])
  IN IF index >= t.capacity THEN [tree |-> t, err |-> "Tree is full"]
     ELSE [tree |-> MerkleTree__insert(t, element, index), err |-> NoError]

MerkleTree_getRoot(t) ==
  IF Len(t._layers[0]) # 0 THEN ArrayGet(t._layers[t.levels], 0)
  ELSE t._zeroSubTrees[t.levels]

RECURSIVE MerkleTree_getPath_inverted(_, _, _)
\* mutant: isLeft tells the side of the sibling
MerkleTree_getPath_inverted(t, index, i) ==
  IF i >= t.levels THEN [isLeft |-> <<>>, siblings |-> <<>>]
  ELSE LET rest == MerkleTree_getPath_inverted(t, index \div 2, i + 1)
       IN IF index % 2 = 1
          THEN [isLeft |-> <<TRUE>> \o rest.isLeft,
                siblings |-> <<ArrayGet(t._layers[i], index - 1)>> \o rest.siblings]
          ELSE [isLeft |-> <<FALSE>> \o rest.isLeft,
                siblings |-> <<IF index + 1 < Len(t._layers[i])
                               THEN ArrayGet(t._layers[i], index + 1)
                               ELSE t._zeroSubTrees[i]>> \o rest.siblings]

RECURSIVE MerkleTree_getPath(_, _, _)
\* the loop of getPath(index) from level i on (getPath is the loop from 0)
MerkleTree_getPath(t, index, i) ==
  IF i >= t.levels THEN [isLeft |-> <<>>, siblings |-> <<>>]
  ELSE LET rest == MerkleTree_getPath(t, index \div 2, i + 1)
       IN IF index % 2 = 1
          THEN [isLeft |-> <<FALSE>> \o rest.isLeft,
                siblings |-> <<ArrayGet(t._layers[i], index - 1)>> \o rest.siblings]
          ELSE [isLeft |-> <<TRUE>> \o rest.isLeft,
                siblings |-> <<IF index + 1 < Len(t._layers[i])
                               THEN ArrayGet(t._layers[i], index + 1)
                               ELSE t._zeroSubTrees[i]>> \o rest.siblings]

\* getPath(index): the guard, then the loop from level 0
MerkleTree_getPathOf(t, index) ==
  IF index < 0 \/ index > t.capacity
  THEN [err |-> "invalid index", path |-> [isLeft |-> <<>>, siblings |-> <<>>]]
  ELSE [err |-> NoError, path |-> MerkleTree_getPath(t, index, 0)]

RECURSIVE MerkleTree_fromLeaves(_, _)
\* the reference tree after insert(seq[1]), ..., insert(seq[Len(seq)])
MerkleTree_fromLeaves(levels, seq) ==
  IF seq = <<>> THEN MerkleTree(levels, DEFAULT_ZERO)
  ELSE MerkleTree_insert(MerkleTree_fromLeaves(levels, SubSeq(seq, 1, Len(seq) - 1)),
                         seq[Len(seq)]).tree

(***************************************************************************)
(* Insertions started together (generateCommitments: Promise.all over      *)
(* merkleTree.insert).  A call runs until its first await: insert reads    *)
(* the length of layer 0, _insert writes the leaf, reads the two children  *)
(* of its node at level 1 and calls the hash; the call is then suspended   *)
(* with the hash pending.  When the hash resolves the call writes the node *)
(* it had selected, reads the children of the next level and is suspended  *)
(* again.  No call resumes before map has started them all.                *)
(***************************************************************************)
\* the leaves given to the trees
LeafValues == 1..4

\* arr[index] = v of JavaScript: an index past the end leaves holes, which
\* read as undefined
ArrayStore(arr, index, v) ==
  [k \in 1..(IF index < Len(arr) THEN Len(arr) ELSE index + 1) |->
     IF k = index + 1 THEN v ELSE IF k <= Len(arr) THEN arr[k] ELSE undefined]

\* the arguments of the hash for the parent, at level i, of the node `index`
\* of level i - 1, as _insert reads them before the await
HashArguments(t, index, i) ==
  LET idx == index \div 2
      below == t._layers[i - 1]
  IN <<ArrayGet(below, 2 * idx),
       IF idx * 2 + 1 < Len(below) THEN ArrayGet(below, 2 * idx + 1)
       ELSE t._zeroSubTrees[i - 1]>>

\* a call suspended at `await this._hash(...)` for the node idx of level i;
\* the hash helper is taken to fail on an undefined argument
Suspended(t, element, leafIndex, index, i) ==
  LET args == HashArguments(t, index, i)
  IN IF undefined \in {args[1], args[2]}
     THEN [element |-> element, index |-> leafIndex, i |-> i, idx |-> index \div 2,
           value |-> undefined, status |-> "threw"]
     ELSE [element |-> element, index |-> leafIndex, i |-> i, idx |-> index \div 2,
           value |-> hash(args[1], args[2]), status |-> "pending"]

\* merkleTree.insert(element) up to its first await
StartInsert ==
  /\ launching
  /\ Len(inserts) < MaxInserts
  /\ \E element \in LeafValues :
       LET index == Len(merkleTree._layers[0])
           t == [merkleTree EXCEPT !._layers[0] = ArrayStore(@, index, element)]
       IN IF index >= merkleTree.capacity
          THEN /\ inserts' = Append(inserts, [element |-> element, index |-> index, i |-> 0,
                                              idx |-> 0, value |-> undefined,
                                              status |-> "Tree is full"])
               /\ UNCHANGED merkleTree
          ELSE /\ merkleTree' = t
               /\ inserts' = Append(inserts, Suspended(t, element, index, index, 1))
  /\ UNCHANGED <<launching, poolVars>>

\* map has started every call; control returns to the event loop
AwaitAll ==
  /\ launching
  /\ inserts # <<>>
  /\ launching' = FALSE
  /\ UNCHANGED <<merkleTree, inserts, poolVars>>

\* the pending hash of call k resolves: this._layers[i][index] = <hash>, then
\* the next level of the loop, or the end of the call
ResumeInsert ==
  /\ ~launching
  /\ \E k \in 1..Len(inserts) :
       LET c == inserts[k]
           t == [merkleTree EXCEPT !._layers[c.i] = ArrayStore(@, c.idx, c.value)]
       IN /\ c.status = "pending"
          /\ merkleTree' = t
          /\ inserts' = [inserts EXCEPT ![k] =
                           IF c.i = t.levels THEN [c EXCEPT !.status = "done"]
                           ELSE Suspended(t, c.element, c.index, c.idx, c.i + 1)]
  /\ UNCHANGED <<launching, poolVars>>

NextConcurrent ==
  \/ StartInsert
  \/ AwaitAll
  \/ ResumeInsert

SpecConcurrent == Init /\ [][NextConcurrent]_vars

(***************************************************************************)
(* The circuits.  Signals are field elements; on the small values of the   *)
(* model the field operations are the integer ones, a negative integer     *)
(* standing for the field element p - |x|.                                 *)
(***************************************************************************)
\* circomlib Switcher: aux <== (R - L) * sel; outL <== aux + L; outR <== -aux + R
Switcher(sel, L, R) ==
  LET aux == (R - L) * sel IN [outL |-> aux + L, outR |-> R - aux]

\* Poseidon(2): hashLeftRight on the values it is defined on; a pair with a
\* negative member hashes to a value of its own, outside the tree's values
ToNat(x) == IF x >= 0 THEN 2 * x ELSE -2 * x - 1
Poseidon2(a, b) ==
  IF a >= 0 /\ b >= 0 THEN hashLeftRight(a, b)
  ELSE -(hashLeftRight(ToNat(a), ToNat(b)) + 1)

RECURSIVE MerkleVerifier_current(_, _, _, _)
\* the value of `current` after the levels i.. of MerkleVerifier
MerkleVerifier_current(current, siblings, isLeft, i) ==
  IF i > Len(siblings) THEN current
  ELSE LET sw == Switcher(1 - isLeft[i], current, siblings[i])
       IN MerkleVerifier_current(Poseidon2(sw.outL, sw.outR), siblings, isLeft, i + 1)

\* MerkleVerifier(nLevels): satisfied iff current === root after the last level
MerkleVerifier(root, commitment, siblings, isLeft) ==
  MerkleVerifier_current(commitment, siblings, isLeft, 1) = root

\* Poseidon(1), an injective function of its input
Poseidon1(x) == 10 + x

\* CommitmentChecker: commitment === Poseidon(2)(secretKey, nullifier) and
\* nullifierHash === Poseidon(1)(nullifier)
CommitmentChecker(secretKey, nullifier, commitment, nullifierHash) ==
  /\ commitment = Poseidon2(secretKey, nullifier)
  /\ nullifierHash = Poseidon1(nullifier)

\* wrapOrWithdraw(nLevels) on the witness w: the constraints of
\* MerkleVerifier and of CommitmentChecker; receiver, relayer, fee and refund
\* are in no constraint
wrapOrWithdraw(w) ==
  /\ CommitmentChecker(w.secretKey, w.nullifier, w.commitment, w.nullifierHash)
  /\ MerkleVerifier(w.root, w.commitment, w.siblings, w.isLeft)

\* generateCircuitInput: isLeft[i] ? 1 : 0
IsLeftSignals(isLeft) == [i \in 1..Len(isLeft) |-> IF isLeft[i] THEN 1 ELSE 0]


(***************************************************************************)
(* Insertions alone: the tree of the contract fed with arbitrary leaves.   *)
(***************************************************************************)
InsertLeaf ==
  /\ Running
  /\ \E leaf \in LeafValues : Apply("_insert", leaf, _insert(Storage, leaf))

NextTree == InsertLeaf

SpecTree == Init /\ [][NextTree]_vars

(***************************************************************************)
(* Properties.                                                             *)
(***************************************************************************)
Succeeded(l) == l.err = NoError
Failed(l) == l.err # NoError

\* the recipient named by the Wrap or Withdraw event of a successful call
EventUser(l) == l.events[Len(l.events)].user

\* C1: a nullifier hash, once spent, stays spent; it is consumed by at most
\* one successful wrap or withdraw, and every wrap or withdraw submitted with
\* a spent hash fails with AlreadySpent.
C1_NullifierConsumedOnce ==
  [][\A n \in NullifierHashDomain :
        /\ isSpent(Storage, n) => isSpent(Storage, n)'
        /\ hist'.consumed[n] <= 1
        /\ (isSpent(Storage, n) /\ last'.op \in {"wrap", "withdraw"} /\ last'.key = n)
             => ErrorKind(last'.err) = "AlreadySpent"]_vars

\* C1 witness: a withdraw retried on a hash that a wrap or withdraw consumed
C1_Witness ==
  /\ last.op = "withdraw"
  /\ ErrorKind(last.err) = "AlreadySpent"
  /\ hist.consumed[last.key] = 1

\* C2: a call that fails leaves the whole storage (tree, root history,
\* registries, pending records and counter, ledger, asset balances) as it was.
C2_FailureChangesNothing ==
  [][Failed(last') => Storage' = Storage]_vars

\* C2 witness: a deposit whose transfer-in failed after the leaf insertion
C2_Witness ==
  /\ last.op = "deposit"
  /\ last.err = "fTornado: insuff bal/allowance"

\* C3: finalizeUnwrap completes at most once per index: on an index already
\* finalized, or never created by unwrap, it fails with AlreadyProcessed and
\* changes nothing.
C3_FinalizeAtMostOnce ==
  [][(last'.op = "finalizeUnwrap"
        /\ (last'.key \in hist.finalized \/ last'.key >= currentPendingIndex))
       => (ErrorKind(last'.err) = "AlreadyProcessed" /\ Storage' = Storage)]_vars

\* C3 witness: a second finalizeUnwrap on a finalized index was refused
C3_Witness ==
  /\ last.op = "finalizeUnwrap"
  /\ last.key \in hist.finalized
  /\ ErrorKind(last.err) = "AlreadyProcessed"

\* C4: a finalizeUnwrap on a live record with a valid decryption proof
\* completes (success or failure outcome) and deletes the record.
C4_ValidFinalizeCompletes ==
  [][(last'.op = "finalizeUnwrap"
        /\ pendingUnwraps[last'.key].user # ZeroAddress
        /\ ErrorKind(last'.err) # "InvalidDisclosureProof")
       => (Succeeded(last') /\ pendingUnwraps'[last'.key] = EmptyPendingUnwrap)]_vars

\* the last ROOT_HISTORY_SIZE entries of a sequence of roots
LastRoots(seq) ==
  {seq[j] : j \in {i \in 1..Len(seq) : i > Len(seq) - ROOT_HISTORY_SIZE}}

\* roots to test isKnownRoot on
RootCandidates == RootArgs \cup {roots[i] : i \in 0..(ROOT_HISTORY_SIZE - 1)}

C6_DepositIndicesInOrder ==
  (hist.depositsOnly /\ last.op = "deposit" /\ Succeeded(last))
    => /\ last.events[1].leafIndex = hist.deposits - 1
       /\ nextIndex = hist.deposits
       /\ getLastRoot(Storage) = hist.rootLog[hist.deposits]
       /\ isKnownRoot(Storage, getLastRoot(Storage))

\* C6 witness: the third deposit of a deposits-only run
C6_Witness ==
  /\ hist.depositsOnly
  /\ last.op = "deposit"
  /\ Succeeded(last)
  /\ hist.deposits = 3

\* C7: the balances (users and pool escrow) add up to the total supply, and
\* the total supply is what was minted minus what was burned.
C7_LedgerConservation ==
  /\ clear(balances[Alice]) + clear(balances[Bob]) + clear(balances[Pool])
       + clear(balances[ZeroAddress]) = clear(totalSupply)
  /\ clear(totalSupply) = hist.minted - hist.burned

\* C7 witness: tokens were minted, moved into escrow, burned and minted again
C7_Witness ==
  /\ hist.burned > 0
  /\ hist.minted > hist.burned
  /\ clear(totalSupply) > 0

\* C8 (checked with the large denomination): a successful wrap credits exactly denomination to the recipient and to
\* the total supply, and moves no external asset.
C8_WrapMintsDenomination ==
  [][(last'.op = "wrap" /\ Succeeded(last'))
       => /\ clear(balances'[EventUser(last')]) = clear(balances[EventUser(last')]) + denomination
          /\ clear(totalSupply') = clear(totalSupply) + denomination
          /\ tokenBalance' = tokenBalance]_vars

C10_SamePreconditions ==
  \A root \in RootArgs, n \in NullifierHashDomain, a \in CallShapes :
    \A proof \in ProofChoices(<<root, AddrToUint(a[1]), n, AddrToUint(a[2]), a[3], a[4]>>) :
       ErrorKind(wrapChecks(Storage, proof, root, a[1], n, a[2], a[3], a[4]))
         = ErrorKind(withdrawChecks(Storage, proof, root, a[1], n, a[2], a[3], a[4]))

\* the kinds of outcome the checks of wrap give in the current state
WrapCheckKinds ==
  {ErrorKind(wrapChecks(Storage, proof, root, a[1], n, a[2], a[3], a[4])) :
     root \in RootArgs, n \in NullifierHashDomain, a \in CallShapes,
     proof \in {GarbageProof, MalformedProof}}

\* C10 witness: after a wrap, a state in which some tuple passes the checks
\* and others fail with each of the three kinds
C10_Witness ==
  /\ last.op = "wrap"
  /\ Succeeded(last)
  /\ {"AlreadySpent", "UnknownRoot", "InvalidProof"} \subseteq WrapCheckKinds
  /\ \E root \in RootArgs, n \in NullifierHashDomain, a \in CallShapes :
       \E proof \in ProofChoices(<<root, AddrToUint(a[1]), n, AddrToUint(a[2]), a[3], a[4]>>) :
          wrapChecks(Storage, proof, root, a[1], n, a[2], a[3], a[4]) = NoError

\* the public-signal vector of a call with root, nullifier hash and shape a
SignalsOf(root, n, a) == <<root, AddrToUint(a[1]), n, AddrToUint(a[2]), a[3], a[4]>>

\* the kinds of outcome of wrap and of withdraw called with proof and the
\* arguments of the vector u
CallKinds(proof, u) ==
  {ErrorKind(wrap(Storage, proof, u[1], u[2], u[3], u[4], u[5], u[6]).err),
   ErrorKind(withdraw(Storage, proof, u[1], u[2], u[3], u[4], u[5], u[6]).err)}

\* C11: wrap and withdraw report the first failing check of nullifier-unspent,
\* root-known, proof-valid: a spent hash gives AlreadySpent whatever the root
\* and the proof; an unspent hash with an unknown root gives UnknownRoot
\* whatever the proof; InvalidProof only with an unspent hash and a known root.
C11_ChecksInFixedOrder ==
  \A root \in RootArgs, n \in NullifierHashDomain, a \in CallShapes :
    \A proof \in ProofChoices(SignalsOf(root, n, a)) :
      \A k \in CallKinds(proof, SignalsOf(root, n, a)) :
         /\ isSpent(Storage, n) <=> k = "AlreadySpent"
         /\ (~isSpent(Storage, n) /\ ~isKnownRoot(Storage, root)) <=> k = "UnknownRoot"
         /\ k = "InvalidProof" =>
              /\ ~isSpent(Storage, n)
              /\ isKnownRoot(Storage, root)
              /\ proof # ProofFor(SignalsOf(root, n, a))

\* C11 witness: a wrap with an unspent hash was refused for its root, in a
\* state that has a spent hash and a satisfiable proof for an evicted root
C11_Witness ==
  /\ last.op = "wrap"
  /\ ErrorKind(last.err) = "UnknownRoot"
  /\ nullifierHashes # {}
  /\ \E root \in RootArgs, n \in nullifierHashes :
        /\ root # 0
        /\ ~isKnownRoot(Storage, root)
        /\ CircuitSatisfiable(SignalsOf(root, n, <<Alice, Bob, 1, 0>>))

\* vectors for which a proof exists and that pass the first two checks
AcceptableSignals ==
  {t \in {SignalsOf(root, n, a) : root \in RootArgs, n \in NullifierHashDomain, a \in CallShapes} :
     /\ CircuitSatisfiable(t)
     /\ isKnownRoot(Storage, t[1])
     /\ ~isSpent(Storage, t[3])}

\* t with the entries at i and j exchanged
Swapped(t, i, j) == [t EXCEPT ![i] = t[j], ![j] = t[i]]

\* the vectors obtained from t by changing one argument, or by exchanging
\* root and nullifier hash, recipient and relayer, or fee and refund
Variants(t) ==
  ({[t EXCEPT ![1] = r] : r \in RootArgs}
     \cup {[t EXCEPT ![2] = x] : x \in Addresses}
     \cup {[t EXCEPT ![3] = n] : n \in NullifierHashDomain}
     \cup {[t EXCEPT ![4] = x] : x \in Addresses}
     \cup {[t EXCEPT ![5] = f] : f \in {0, 1}}
     \cup {[t EXCEPT ![6] = f] : f \in {0, 1}}
     \cup {Swapped(t, 1, 3), Swapped(t, 2, 4), Swapped(t, 5, 6)}) \ {t}

FinalizeDisclosed(i) ==
  finalizeUnwrap(Storage, i, clear(pendingUnwraps[i].actualAmount),
                 <<pendingUnwraps[i].actualAmount, clear(pendingUnwraps[i].actualAmount)>>)

\* C13: unwrap by an account whose balance is at least denomination records
\* the clear amount denomination and moves denomination from the caller to
\* the pool's escrow; finalizeUnwrap of such a record with a valid proof
\* appends its commitment to the tree, burns denomination from the escrow
\* (the total supply drops by denomination), emits UnwrapFinalized and
\* leaves the empty record at the index.
C13_SuccessfulUnwrapPath ==
  /\ \A sender \in Users, c \in CommitmentArgs :
       (isInitialized(balances[sender]) /\ balances[sender] >= denomination)
         => LET r == unwrap(Storage, sender, c)
                rec == getPendingUnwrap(r.st, currentPendingIndex)
            IN /\ r.err = NoError
               /\ rec = [user |-> sender, commitment |-> c, actualAmount |-> denomination]
               /\ r.st.balances[sender] = balances[sender] - denomination
               /\ r.st.balances[Pool] = clear(balances[Pool]) + denomination
               /\ r.st.totalSupply = totalSupply
  /\ \A i \in PendingIndices :
       (pendingUnwraps[i].user # ZeroAddress /\ clear(pendingUnwraps[i].actualAmount) = denomination)
         => LET f == FinalizeDisclosed(i)
            IN /\ f.err = NoError
               /\ f.st.leaves = Append(leaves, pendingUnwraps[i].commitment)
               /\ f.st.totalSupply = totalSupply - denomination
               /\ f.st.balances[Pool] = balances[Pool] - denomination
               /\ f.events[Len(f.events)].name = "UnwrapFinalized"
               /\ getPendingUnwrap(f.st, i) = EmptyPendingUnwrap

\* the clear values of the ledger balances of storage s
ClearBalances(s) == [a \in Addresses |-> clear(s.balances[a])]

\* unwrap(c) by sender took the insufficient-balance path: it succeeded,
\* recorded the clear amount 0 and moved nothing, and the finalizeUnwrap of
\* the new record with the oracle's proof emits UnwrapFailed and inserts
\* nothing
InsufficientPath(sender, c) ==
  LET r == unwrap(Storage, sender, c)
      rec == getPendingUnwrap(r.st, currentPendingIndex)
      f == finalizeUnwrap(r.st, currentPendingIndex, 0, <<rec.actualAmount, 0>>)
  IN /\ r.err = NoError
     /\ rec.user = sender
     /\ rec.commitment = c
     /\ clear(rec.actualAmount) = 0
     /\ ClearBalances(r.st) = ClearBalances(Storage)
     /\ f.err = NoError
     /\ f.events[Len(f.events)].name = "UnwrapFailed"
     /\ f.st.leaves = leaves
     /\ f.st.commitments = commitments

\* C14 (as stated): for every caller whose balance is below denomination,
\* whether or not the caller ever held tokens, unwrap takes the
\* insufficient-balance path.
C14_InsufficientUnwrapNeverFails ==
  \A sender \in Users, c \in CommitmentArgs :
     clear(balances[sender]) < denomination => InsufficientPath(sender, c)

\* C14 (amended): for every caller whose balance handle is initialized and
\* below denomination, unwrap takes the insufficient-balance path; for a
\* caller whose balance handle was never initialized, unwrap fails with
\* ZeroBalance and changes nothing.
C14_InsufficientUnwrapPath ==
  \A sender \in Users, c \in CommitmentArgs :
     /\ (isInitialized(balances[sender]) /\ balances[sender] < denomination)
          => InsufficientPath(sender, c)
     /\ ~isInitialized(balances[sender])
          => /\ ErrorKind(unwrap(Storage, sender, c).err) = "ZeroBalance"
             /\ unwrap(Storage, sender, c).st = Storage

\* C14 witness: a record of clear amount 0 was finalized with UnwrapFailed
\* while the other user never held tokens
C14_Witness ==
  /\ last.op = "finalizeUnwrap"
  /\ Succeeded(last)
  /\ last.events[Len(last.events)].name = "UnwrapFailed"
  /\ \E u \in Users : ~isInitialized(balances[u])

\* every amount a euint64 can hold
Amounts == 0..(UINT64_MODULUS - 1)

\* C15: a transfer of a from X (initialized balance b) to Y returns a when
\* b >= a and 0 otherwise; X's balance becomes b minus the returned amount,
\* Y's balance grows by it (X's balance is unchanged when X = Y), the total
\* supply and every other balance are unchanged.
C15_ObliviousTransferResult ==
  \A X \in Users \cup {Pool}, Y \in Addresses \ {ZeroAddress}, a \in Amounts :
     isInitialized(balances[X])
       => LET r == confidentialTransferFrom(Storage, X, X, Y, a, TRUE)
              b == balances[X]
              actualAmount == IF b >= a THEN a ELSE 0
          IN /\ r.err = NoError
             /\ r.ret = actualAmount
             /\ r.events[1].amount = actualAmount
             /\ X # Y => /\ r.st.balances[X] = b - actualAmount
                         /\ r.st.balances[Y] = clear(balances[Y]) + actualAmount
             /\ X = Y => r.st.balances[X] = b
             /\ r.st.totalSupply = totalSupply
             /\ \A o \in Addresses \ {X, Y} : r.st.balances[o] = balances[o]

\* C15 witness: a transfer by a holder whose balance was below the amount
\* returned 0, while tokens are in circulation
C15_Witness ==
  /\ last.op = "confidentialTransfer"
  /\ Succeeded(last)
  /\ last.ret = 0
  /\ \E u \in Users : clear(balances[u]) >= denomination

\* the current storage with the balance of account a set to the value b
WithBalance(a, b) == [Storage EXCEPT !.balances[a] = b]

\* what an observer sees of a call result r without decrypting any amount:
\* the outcome, the returned value, the kinds of the events, the owner and
\* commitment of every pending record, the pending counter, the tree, the
\* registries, the asset balances and which balance handles exist
PublicEffect(r) ==
  [err |-> r.err,
   ret |-> r.ret,
   eventKinds |-> [j \in 1..Len(r.events) |-> r.events[j].name],
   recordOwners |-> [i \in PendingIndices |-> r.st.pendingUnwraps[i].user],
   recordCommitments |-> [i \in PendingIndices |-> r.st.pendingUnwraps[i].commitment],
   currentPendingIndex |-> r.st.currentPendingIndex,
   leaves |-> r.st.leaves,
   filledSubtrees |-> r.st.filledSubtrees,
   roots |-> r.st.roots,
   currentRootIndex |-> r.st.currentRootIndex,
   nextIndex |-> r.st.nextIndex,
   commitments |-> r.st.commitments,
   nullifierHashes |-> r.st.nullifierHashes,
   tokenBalance |-> r.st.tokenBalance,
   handles |-> [a \in Addresses |-> isInitialized(r.st.balances[a])]]

\* C16: started in states that differ only in the caller's initialized
\* balance, unwrap with the same arguments has the same public effect
\* whatever the balance: every balance gives the public effect that the
\* balance denomination gives, so a run with balance >= denomination and a
\* run with balance < denomination cannot be told apart.
C16_UnwrapPublicEffectIndependent ==
  \A sender \in Users, c \in CommitmentArgs :
     LET sufficient == PublicEffect(unwrap(WithBalance(sender, denomination), sender, c))
     IN \A b \in Amounts :
           PublicEffect(unwrap(WithBalance(sender, b), sender, c)) = sufficient

\* C16 witness: after an unwrap, the run holds a record of clear amount
\* denomination and a record of clear amount 0
C16_Witness ==
  /\ last.op = "unwrap"
  /\ Succeeded(last)
  /\ \E i, j \in PendingIndices :
        /\ pendingUnwraps[i].user # ZeroAddress
        /\ pendingUnwraps[j].user # ZeroAddress
        /\ clear(pendingUnwraps[i].actualAmount) = denomination
        /\ clear(pendingUnwraps[j].actualAmount) = 0

\* C17: the commitment registry only grows, the leaves are only appended to,
\* the registered commitments are exactly the leaves and no value occupies
\* two leaves, whichever of deposit and finalizeUnwrap inserted them; a
\* deposit of a registered commitment fails with AlreadyPresent and changes
\* nothing.
C17_CommitmentsAppendOnly ==
  [][/\ commitments \subseteq commitments'
     /\ Len(leaves') >= Len(leaves)
     /\ \A i \in 1..Len(leaves) : leaves'[i] = leaves[i]
     /\ \A i, j \in 1..Len(leaves') : i # j => leaves'[i] # leaves'[j]
     /\ commitments' = {leaves'[i] : i \in 1..Len(leaves')}
     /\ (last'.op = "deposit" /\ last'.key \in commitments)
          => (ErrorKind(last'.err) = "AlreadyPresent" /\ Storage' = Storage)]_vars

\* C17 witness: a deposit of a registered commitment was refused in a tree
\* that holds leaves inserted by deposit and by finalizeUnwrap
C17_Witness ==
  /\ last.op = "deposit"
  /\ ErrorKind(last.err) = "AlreadyPresent"
  /\ hist.deposits >= 1
  /\ Len(leaves) > hist.deposits

\* C18: the pending counter starts at 0 and grows by exactly 1 per
\* successful unwrap and not otherwise; a successful unwrap returns the
\* counter's value before the call, so the indices returned so far are
\* 0, 1, 2, ... in call order and none is returned twice; the record is
\* written at an index that holds no live record and no other record changes.
C18_UnwrapIndicesFresh ==
  [][/\ currentPendingIndex' =
          currentPendingIndex + (IF last'.op = "unwrap" /\ Succeeded(last') THEN 1 ELSE 0)
     /\ currentPendingIndex = Len(hist.unwrapIndices)
     /\ hist'.unwrapIndices = [k \in 1..Len(hist'.unwrapIndices) |-> k - 1]
     /\ \A i \in PendingIndices : i >= currentPendingIndex' => pendingUnwraps'[i] = EmptyPendingUnwrap
     /\ (last'.op = "unwrap" /\ Succeeded(last'))
          => /\ last'.ret = currentPendingIndex
             /\ pendingUnwraps[last'.ret] = EmptyPendingUnwrap
             /\ pendingUnwraps'[last'.ret].user # ZeroAddress
             /\ \A i \in PendingIndices \ {last'.ret} : pendingUnwraps'[i] = pendingUnwraps[i]]_vars

\* C18 witness: an unwrap returned index 1 after the record at index 0 had
\* been finalized and deleted
C18_Witness ==
  /\ last.op = "unwrap"
  /\ Succeeded(last)
  /\ last.ret = 1
  /\ 0 \in hist.finalized
  /\ pendingUnwraps[0] = EmptyPendingUnwrap

\* decryption proofs a caller may hold: none, or an attestation <<handle,
\* clear value>>; the oracle only issues the attestations of true decryptions
CandidateProofs == {<<>>} \cup {<<h, v>> : h \in {0, denomination}, v \in {0, denomination}}
OracleProofs == {<<h, h>> : h \in {0, denomination}}

\* C19: finalizeUnwrap on a live record with a decryption proof that does not
\* attest the supplied clear amount for the stored handle fails with
\* InvalidDisclosureProof and leaves the storage (the record, the tree, the
\* ledger) as it was; with the proofs the oracle issues, a supplied clear
\* amount other than the true one always fails so.
C19_InvalidDisclosureProofRejected ==
  \A i \in PendingIndices :
     pendingUnwraps[i].user # ZeroAddress =>
       \A clearAmount \in {0, denomination}, p \in CandidateProofs :
          LET f == finalizeUnwrap(Storage, i, clearAmount, p)
              rejected == /\ ErrorKind(f.err) = "InvalidDisclosureProof"
                          /\ f.st = Storage
                          /\ f.events = <<>>
          IN /\ p # <<pendingUnwraps[i].actualAmount, clearAmount>> => rejected
             /\ (p \in OracleProofs /\ clearAmount # clear(pendingUnwraps[i].actualAmount))
                  => rejected

\* C19 witness: a finalizeUnwrap on a live record of clear amount 0 was
\* refused for its decryption proof
C19_Witness ==
  /\ last.op = "finalizeUnwrap"
  /\ ErrorKind(last.err) = "InvalidDisclosureProof"
  /\ pendingUnwraps[last.key].user # ZeroAddress
  /\ clear(pendingUnwraps[last.key].actualAmount) = 0

\* C20: a finalizeUnwrap that completes on a record of clear amount 0 emits
\* UnwrapFailed and changes nothing but that record, which becomes the empty
\* record: leaves, nextIndex, root history, both registries, every balance,
\* the total supply, the pending counter and the other records are as before.
C20_FailedFinalizeOnlyDeletes ==
  [][(/\ last'.op = "finalizeUnwrap"
      /\ Succeeded(last')
      /\ clear(pendingUnwraps[last'.key].actualAmount) = 0)
       => /\ Storage' = [Storage EXCEPT !.pendingUnwraps[last'.key] = EmptyPendingUnwrap]
          /\ last'.events = <<[name |-> "UnwrapFailed",
                               user |-> pendingUnwraps[last'.key].user,
                               commitment |-> pendingUnwraps[last'.key].commitment,
                               actualAmount |-> pendingUnwraps[last'.key].actualAmount,
                               pendingUnwrapIndex |-> last'.key]>>]_vars

\* C20 witness: a record of clear amount 0 was finalized while another
\* record is live and the tree and the ledger are not empty
C20_Witness ==
  /\ last.op = "finalizeUnwrap"
  /\ Succeeded(last)
  /\ clear(last.events[Len(last.events)].actualAmount) = 0
  /\ \E i \in PendingIndices : pendingUnwraps[i].user # ZeroAddress
  /\ leaves # <<>>
  /\ clear(totalSupply) > 0

\* C21: withdraw marks the nullifier hash before it releases the asset: a
\* wrap or withdraw with the same nullifier hash issued from inside the asset
\* transfer fails with AlreadySpent, the pool releases denomination once in
\* the call, and the nullifier hash has been consumed once.
C21_SpentBeforeRelease ==
  [][(last'.op = "withdraw" /\ Succeeded(last') /\ last'.inner # "none")
       => /\ ErrorKind(last'.inner) = "AlreadySpent"
          /\ Len(last'.events) = 1
          /\ EventUser(last') # Pool => tokenBalance'[Pool] = tokenBalance[Pool] - denomination
          /\ hist'.consumed[last'.key] = 1
          /\ balances' = balances
          /\ totalSupply' = totalSupply]_vars

\* C21 witness: a withdraw to Alice completed although the asset transfer
\* called back into the pool with the same nullifier hash
C21_Witness ==
  /\ last.op = "withdraw"
  /\ Succeeded(last)
  /\ last.inner # "none"
  /\ EventUser(last) = Alice
  /\ isSpent(Storage, last.key)

\* the names of the steps of a sequence of steps
StepNames(tr) == [i \in 1..Len(tr) |-> tr[i].step]

\* the steps deposit(c) by sender went through when it completed
CompletedDepositSteps(sender, c) == depositSteps(Storage, sender, c, TRUE)

\* sender can pay for a deposit of c that the registry and the tree accept
DepositCompletes(sender, c) ==
  /\ c \notin commitments
  /\ nextIndex < Pow2(LEVELS)
  /\ tokenBalance[sender] >= denomination

\* C22 (as stated): deposit registers the commitment, then takes the asset,
\* and inserts the commitment into the tree only after the transfer-in: when
\* the transfer-in is invoked the commitment is registered but is not a leaf
\* and no new root has been produced.
C22_DepositRegistersPaysInserts ==
  \A sender \in Users, c \in CommitmentArgs :
     DepositCompletes(sender, c) =>
       LET tr == CompletedDepositSteps(sender, c)
           atTransferIn == tr[2].st
       IN /\ StepNames(tr) = <<"register", "transferIn", "insert">>
          /\ tr[2].step = "transferIn"
          /\ c \in atTransferIn.commitments
          /\ atTransferIn.leaves = leaves
          /\ atTransferIn.roots = roots

\* C22 (amended): deposit inserts the commitment into the tree, then
\* registers it, then takes the asset: when the transfer-in is invoked the
\* commitment is the newest leaf, it is registered and the new root is the
\* current root; a transfer-in that fails reverts the call and undoes the
\* insertion and the registration; the storage after the last step is the
\* storage deposit leaves.
C22_DepositInsertsRegistersPays ==
  \A sender \in Users, c \in CommitmentArgs :
     /\ DepositCompletes(sender, c) =>
          LET tr == CompletedDepositSteps(sender, c)
              atTransferIn == tr[2].st
          IN /\ StepNames(tr) = <<"insert", "register", "transferIn">>
             /\ c \notin tr[1].st.commitments
             /\ atTransferIn.leaves = Append(leaves, c)
             /\ c \in atTransferIn.commitments
             /\ atTransferIn.tokenBalance = tokenBalance
             /\ isKnownRoot(atTransferIn, getLastRoot(atTransferIn))
             /\ atTransferIn.currentRootIndex = (currentRootIndex + 1) % ROOT_HISTORY_SIZE
             /\ deposit(Storage, sender, c, TRUE).st = tr[3].st
             /\ deposit(Storage, sender, c, TRUE).err = NoError
     /\ (c \notin commitments /\ nextIndex < Pow2(LEVELS)) =>
          /\ StepNames(depositSteps(Storage, sender, c, FALSE)) = <<"insert", "register">>
          /\ deposit(Storage, sender, c, FALSE).st = Storage
          /\ ErrorKind(deposit(Storage, sender, c, FALSE).err) = "AssetTransferFailed"

\* C22 witness: the second deposit of a run completed; its commitment is the
\* newest leaf
C22_Witness ==
  /\ last.op = "deposit"
  /\ Succeeded(last)
  /\ hist.deposits = 2
  /\ leaves[Len(leaves)] = last.key
  /\ last.key \in commitments

\* C23: nextIndex is the number of leaves and never exceeds 2^LEVELS; once
\* 2^LEVELS leaves exist every insertion into the tree fails with
\* StructureFull, a deposit fails (with StructureFull when its commitment is
\* not registered) without taking the asset or registering the commitment,
\* and finalizeUnwrap inserts nothing; a leaf, once written, keeps its index
\* and its value, and each successful deposit reports the index nextIndex
\* had, which then grows by one.
C23_FullTreeRefusesInsertions ==
  [][/\ nextIndex' = Len(leaves')
     /\ nextIndex' <= Pow2(LEVELS)
     /\ nextIndex' >= nextIndex
     /\ \A i \in 1..Len(leaves) : leaves'[i] = leaves[i]
     /\ (last'.op = "deposit" /\ Succeeded(last'))
          => /\ last'.events[1].leafIndex = nextIndex
             /\ nextIndex' = nextIndex + 1
     /\ nextIndex = Pow2(LEVELS)
          => /\ \A v \in CommitmentArgs :
                  ErrorKind(_insert(Storage, v).err) = "StructureFull"
             /\ leaves' = leaves
             /\ last'.op = "deposit"
                  => /\ Failed(last')
                     /\ last'.key \notin commitments => ErrorKind(last'.err) = "StructureFull"
                     /\ tokenBalance' = tokenBalance
                     /\ commitments' = commitments]_vars

\* C23 witness: a deposit of a new commitment was refused by the full tree
C23_Witness ==
  /\ last.op = "deposit"
  /\ ErrorKind(last.err) = "StructureFull"
  /\ nextIndex = Pow2(LEVELS)
  /\ last.key \notin commitments

\* the debits of an account: burn, a transfer to another account, and the
\* escrow transfer of unwrap
DebitAmounts == {0, denomination \div 2, denomination}
DebitsOf(a) ==
  {_burn(Storage, a, amt) : amt \in DebitAmounts}
    \cup {confidentialTransfer(Storage, a, to, amt) :
            to \in Addresses \ {ZeroAddress}, amt \in DebitAmounts}
    \cup {confidentialTransferFrom(Storage, a, a, to, amt, TRUE) :
            to \in Addresses \ {ZeroAddress}, amt \in DebitAmounts}
    \cup {unwrap(Storage, a, c) : c \in CommitmentArgs}

\* C24: a debit (burn, transfer, the transfer of unwrap) from an account
\* whose balance handle was never initialized fails with ZeroBalance and
\* leaves the storage as it was; a debit from an initialized balance never
\* fails with ZeroBalance, also when the balance is 0.
C24_ZeroBalanceOnlyWhenUninitialized ==
  \A a \in Addresses \ {ZeroAddress} : \A r \in DebitsOf(a) :
     /\ balances[a] = NoHandle
          => ErrorKind(r.err) = "ZeroBalance" /\ r.st = Storage /\ r.events = <<>>
     /\ balances[a] # NoHandle => ErrorKind(r.err) # "ZeroBalance"

\* C24 witness: an unwrap by an account without a balance handle was
\* refused with ZeroBalance while another account holds an initialized
\* balance of 0
C24_Witness ==
  /\ last.op = "unwrap"
  /\ ErrorKind(last.err) = "ZeroBalance"
  /\ \E a \in Users : balances[a] = NoHandle
  /\ \E a \in Users : balances[a] = 0

\* the ConfidentialTransfer events of a call
LedgerUpdates(l) ==
  {l.events[i] : i \in {j \in 1..Len(l.events) : l.events[j].name = "ConfidentialTransfer"}}

EventsNamed(evs, name) == SelectSeq(evs, LAMBDA e : e.name = name)

\* what C26 says of the result r of op called with recipient and hash n
DistinctEvents(op, r, recipient, n) ==
  LET own == IF op = "wrap" THEN "Wrap" ELSE "Withdraw"
      other == IF op = "wrap" THEN "Withdraw" ELSE "Wrap"
  IN /\ r.err # NoError => r.events = <<>>
     /\ r.err = NoError =>
          /\ EventsNamed(r.events, own)
               = <<[name |-> own, user |-> recipient, nullifierHash |-> n]>>
          /\ EventsNamed(r.events, other) = <<>>

ReferenceTree == MerkleTree_fromLeaves(LEVELS, leaves)

C28_PathFoldsToRoot ==
  \A i \in 0..(Len(leaves) - 1) :
     LET path == MerkleTree_getPath(ReferenceTree, i, 0)
     IN /\ Len(path.siblings) = LEVELS
        /\ Len(path.isLeft) = LEVELS
        /\ MerkleVerifier(MerkleTree_getRoot(ReferenceTree), leaves[i + 1],
                          path.siblings, IsLeftSignals(path.isLeft))

\* C28 witness: three leaves, so that paths with a left sibling, with a right
\* sibling and with an empty-subtree sibling all occur
C28_Witness ==
  /\ Len(leaves) = 3
  /\ last.op = "_insert"
  /\ leaves[1] # leaves[2]
  /\ MerkleTree_getPath(ReferenceTree, 2, 0).siblings[1] = DEFAULT_ZERO

\* witnesses tried against the circuit in the current tree: the path of a
\* leaf index with any first sibling and any first selector from a small
\* range, any secret key, nullifier, commitment and nullifier hash from small
\* ranges, the root of the tree or another value
SecretRange == 0..1
FirstSiblingRange == 0..4
FirstSelectorRange == -1..2
CircuitWitnesses ==
  {[root |-> root, receiver |-> 0, relayer |-> 0, fee |-> 0, refund |-> 0,
    secretKey |-> sk, nullifier |-> n, commitment |-> c, nullifierHash |-> Poseidon1(m),
    siblings |-> [MerkleTree_getPath(ReferenceTree, i, 0).siblings EXCEPT ![1] = sib],
    isLeft |-> [IsLeftSignals(MerkleTree_getPath(ReferenceTree, i, 0).isLeft)
                  EXCEPT ![1] = sel]] :
     root \in {MerkleTree_getRoot(ReferenceTree), MerkleTree_getRoot(ReferenceTree) + 1},
     sk \in SecretRange, n \in SecretRange, m \in SecretRange, c \in FirstSiblingRange,
     i \in 0..(Len(leaves) - 1), sib \in FirstSiblingRange, sel \in FirstSelectorRange}

RECURSIVE FoldedRoot(_, _, _, _)
\* the root the path gives by the rule: current is the left child where
\* isLeft is 1 and the right child where it is 0
FoldedRoot(current, siblings, isLeft, i) ==
  IF i > Len(siblings) THEN current
  ELSE FoldedRoot(IF isLeft[i] = 1 THEN hash(current, siblings[i])
                  ELSE hash(siblings[i], current), siblings, isLeft, i + 1)

\* the path folds from the commitment to the root: with each step taken as
\* left or as right child, the siblings lead from w.commitment to w.root
PathFolds(w) ==
  \E sides \in [1..Len(w.siblings) -> {0, 1}] :
     FoldedRoot(w.commitment, w.siblings, sides, 1) = w.root

\* w with one of secret key, nullifier, commitment, root or one sibling changed
ChangedWitnesses(w) ==
  {[w EXCEPT !.secretKey = x] : x \in SecretRange \ {w.secretKey}}
    \cup {[w EXCEPT !.nullifier = x] : x \in SecretRange \ {w.nullifier}}
    \cup {[w EXCEPT !.commitment = x] : x \in FirstSiblingRange \ {w.commitment}}
    \cup {[w EXCEPT !.root = x] : x \in {w.root + 1, 0}}
    \cup UNION {{[w EXCEPT !.siblings[j] = x] : x \in {w.siblings[j] + 1, 0} \ {w.siblings[j]}} :
                   j \in 1..Len(w.siblings)}

\* C29: the circuit accepts a witness only if commitment = H(secretKey,
\* nullifier), nullifierHash = H(nullifier) and the path folds from the
\* commitment to the root; an accepted witness with only the secret key, the
\* nullifier, the commitment, the root or one sibling changed is rejected.
C29_AcceptsOnlyMembers ==
  \A w \in CircuitWitnesses :
     wrapOrWithdraw(w) =>
        /\ w.commitment = hash(w.secretKey, w.nullifier)
        /\ w.nullifierHash = Poseidon1(w.nullifier)
        /\ PathFolds(w)
        /\ \A v \in ChangedWitnesses(w) : ~wrapOrWithdraw(v)

\* the call of op (wrap or withdraw) that claims note k for Alice against
\* the current root of s, with the proof of exactly these public signals
Claim(op, s, k) ==
  LET a == <<Alice, Bob, 1, 0>>
      root == getLastRoot(s)
      proof == ProofFor(SignalsOf(root, NoteNullifierHash(k), a))
  IN IF op = "wrap"
     THEN wrap(s, proof, root, a[1], NoteNullifierHash(k), a[2], a[3], a[4])
     ELSE withdraw(s, proof, root, a[1], NoteNullifierHash(k), a[2], a[3], a[4])

\* the full cycle from the storage s: deposit of the commitment of note 1,
\* wrap of note 1 to Alice, unwrap by Alice with the commitment of note 2,
\* finalizeUnwrap with the disclosed amount, withdraw of note 2
FullCycle(s) ==
  LET r1 == deposit(s, Alice, NoteCommitment(1), TRUE)
      r2 == Claim("wrap", r1.st, 1)
      r3 == unwrap(r2.st, Alice, NoteCommitment(2))
      amount == r3.st.pendingUnwraps[r3.ret].actualAmount
      r4 == finalizeUnwrap(r3.st, r3.ret, amount, <<amount, amount>>)
      r5 == Claim("withdraw", r4.st, 2)
  IN <<r1, r2, r3, r4, r5>>

\* classic mode: deposit, then withdraw of the same note
ClassicCycle(s) ==
  LET r1 == deposit(s, Alice, NoteCommitment(1), TRUE)
      r2 == Claim("withdraw", r1.st, 1)
  IN <<r1, r2>>

\* the notes whose commitment is a leaf (put there by deposit or by
\* finalizeUnwrap) and whose nullifier hash is not spent
LiveNotes(s) ==
  {k \in Notes : /\ \E i \in 1..Len(s.leaves) : s.leaves[i] = NoteCommitment(k)
                 /\ ~isSpent(s, NoteNullifierHash(k))}

\* C30: from the empty pool the calls deposit(C1), wrap(note C1),
\* unwrap(C2) by the wrap recipient, finalizeUnwrap, withdraw(note C2) all
\* succeed and leave the pool without asset, total supply 0, two leaves and
\* two spent nullifier hashes; deposit followed by withdraw succeeds too; and
\* in every state every note whose commitment is a leaf and whose nullifier
\* hash is unspent is accepted by wrap, and by withdraw.
C30_FullCycleCloses ==
  /\ last.op = "constructor" =>
       LET c == FullCycle(Storage)
           e == c[5].st
           d == ClassicCycle(Storage)
       IN /\ \A i \in 1..5 : c[i].err = NoError
          /\ c[3].st.pendingUnwraps[c[3].ret].actualAmount = denomination
          /\ e.tokenBalance[Pool] = 0
          /\ clear(e.totalSupply) = 0
          /\ e.leaves = <<NoteCommitment(1), NoteCommitment(2)>>
          /\ e.nullifierHashes = {NoteNullifierHash(1), NoteNullifierHash(2)}
          /\ d[1].err = NoError /\ d[2].err = NoError
          /\ d[2].st.tokenBalance[Pool] = 0
          /\ d[2].st.tokenBalance[Alice] = tokenBalance[Alice]
  /\ \A k \in LiveNotes(Storage) :
        /\ Claim("wrap", Storage, k).err = NoError
        /\ Claim("withdraw", Storage, k).err = NoError

\* C30 witness: the state the five calls of the full cycle lead to
C30_Witness ==
  /\ last.op = "withdraw" /\ Succeeded(last)
  /\ hist.calls = 5
  /\ hist.deposits = 1 /\ hist.withdraws = 1
  /\ hist.minted = denomination /\ hist.burned = denomination
  /\ hist.finalized # {}
  /\ tokenBalance[Pool] = 0
  /\ clear(totalSupply) = 0
  /\ Len(leaves) = 2
  /\ Cardinality(nullifierHashes) = 2

\* C31: confidentialTransferAndCall of amount a by X (initialized balance)
\* to a receiver Y succeeds; when the callback answers false and moves no
\* tokens, the amount returned is 0 and the balances of X and of Y have the
\* clear values they had before the call; when it answers true, the amount
\* returned is a if X held a and 0 otherwise, it is taken from X and stays
\* with Y.  The total supply is unchanged in both cases.
C31_CallbackFailureRefunds ==
  \A X \in Users, Y \in Users, a \in Amounts :
     isInitialized(balances[X])
       => LET f == confidentialTransferAndCall(Storage, X, Y, a, "false")
              t == confidentialTransferAndCall(Storage, X, Y, a, "true")
              sent == IF balances[X] >= a THEN a ELSE 0
          IN /\ f.err = NoError /\ t.err = NoError
             /\ f.events[1].amount = sent
             /\ f.ret = 0
             /\ \A o \in Addresses : clear(f.st.balances[o]) = clear(balances[o])
             /\ f.st.totalSupply = totalSupply
             /\ t.ret = sent
             /\ X # Y => /\ t.st.balances[X] = balances[X] - sent
                         /\ t.st.balances[Y] = clear(balances[Y]) + sent
             /\ X = Y => t.st.balances[X] = balances[X]
             /\ \A o \in Addresses \ {X, Y} : t.st.balances[o] = balances[o]
             /\ t.st.totalSupply = totalSupply

\* C31 witness: a call whose callback answered false gave back an amount
\* that had been moved to the receiver
C31_Witness ==
  /\ last.op = "confidentialTransferAndCall"
  /\ Succeeded(last)
  /\ Len(last.events) = 2
  /\ last.events[1].amount > 0
  /\ last.events[1].from # last.events[1].to
  /\ last.events[2].amount = last.events[1].amount
  /\ last.ret = 0

\* every call of withdraw a caller can make in the current state
WithdrawCalls ==
  {<<proof, root, a, n>> \in
     (UNION {ProofChoices(SignalsOf(root, n, a)) :
               root \in RootArgs, n \in NullifierHashDomain, a \in CallShapes})
       \X RootArgs \X CallShapes \X NullifierHashDomain : TRUE}

EscrowedIndices(s) ==
  {i \in PendingIndices : /\ s.pendingUnwraps[i].user # ZeroAddress
                          /\ clear(s.pendingUnwraps[i].actualAmount) # 0}

\* C33: the pool's ledger balance is at least denomination times the number
\* of live pending-unwrap records with a non-zero amount; finalizeUnwrap of
\* such a record with the disclosed amount, when it succeeds, takes exactly
\* denomination from the pool's balance and from the total supply and
\* inserts the commitment.
C33_EscrowCoversPendingUnwraps ==
  /\ clear(balances[Pool]) >= denomination * Cardinality(EscrowedIndices(Storage))
  /\ \A i \in EscrowedIndices(Storage) :
        LET amount == pendingUnwraps[i].actualAmount
            r == finalizeUnwrap(Storage, i, amount, <<amount, amount>>)
        IN r.err = NoError
             => /\ r.events[1].name = "ConfidentialTransfer"
                /\ r.events[1].amount = denomination
                /\ r.st.balances[Pool] = balances[Pool] - denomination
                /\ r.st.totalSupply = totalSupply - denomination
                /\ r.st.leaves = Append(leaves, pendingUnwraps[i].commitment)
                /\ EscrowedIndices(r.st) = EscrowedIndices(Storage) \ {i}

\* C33 witness: a live record holds the denomination in escrow, the pool's
\* balance is exactly that amount, and its finalizeUnwrap succeeds
C33_Witness ==
  /\ last.op = "unwrap"
  /\ Succeeded(last)
  /\ last.ret \in EscrowedIndices(Storage)
  /\ balances[Pool] = denomination
  /\ LET amount == pendingUnwraps[last.ret].actualAmount
     IN finalizeUnwrap(Storage, last.ret, amount, <<amount, amount>>).err = NoError

\* C34: the registered commitments are exactly the tree leaves; nextIndex is
\* their number and equals successful deposits plus successful
\* finalizeUnwraps of a non-zero amount; a deposit reports the nextIndex of
\* before the call as leafIndex, and a deposit or a finalizeUnwrap that
\* inserts puts its commitment at that index and advances nextIndex by one.
C34_RegistryAgreesWithTree ==
  /\ commitments = {leaves[i] : i \in 1..Len(leaves)}
  /\ nextIndex = Len(leaves)
  /\ nextIndex = Cardinality(commitments)
  /\ nextIndex = hist.deposits + hist.finalizedNonZero
  /\ \A sender \in Users, c \in CommitmentArgs :
        LET r == deposit(Storage, sender, c, TRUE)
        IN r.err = NoError
             => /\ r.events[Len(r.events)].leafIndex = nextIndex
                /\ r.st.nextIndex = nextIndex + 1
                /\ r.st.leaves = Append(leaves, c)
  /\ \A i \in PendingIndices :
        LET amount == pendingUnwraps[i].actualAmount
            r == finalizeUnwrap(Storage, i, amount, <<amount, amount>>)
        IN r.err = NoError /\ clear(amount) # 0
             => /\ r.st.nextIndex = nextIndex + 1
                /\ r.st.leaves = Append(leaves, pendingUnwraps[i].commitment)

\* C34 witness: a deposit made after a finalizeUnwrap that inserted a leaf
\* reported the index following it
C34_Witness ==
  /\ last.op = "deposit"
  /\ Succeeded(last)
  /\ hist.finalizedNonZero = 1
  /\ hist.deposits = 2
  /\ last.events[Len(last.events)].leafIndex = 2
  /\ leaves[2] # last.key
  /\ nextIndex = 3

\* C35: the amount of every live pending-unwrap record is 0 or the
\* denomination; an unwrap by a user with an initialized balance b records,
\* and discloses in its event, the denomination when b >= denomination and 0
\* otherwise, whatever b is.
C35_RecordedAmountZeroOrDenomination ==
  /\ \A i \in PendingIndices :
        pendingUnwraps[i].user # ZeroAddress
          => pendingUnwraps[i].actualAmount \in {0, denomination}
  /\ \A sender \in Users, c \in CommitmentArgs :
        LET r == unwrap(Storage, sender, c)
            rec == r.st.pendingUnwraps[r.ret]
        IN r.err = NoError
             => /\ rec.actualAmount =
                     (IF balances[sender] >= denomination THEN denomination ELSE 0)
                /\ r.events[Len(r.events)].name = "PendingUnwrapEvent"
                /\ r.events[Len(r.events)].actualAmount = rec.actualAmount
                /\ \A e \in {r.events[j] : j \in 1..Len(r.events)} :
                      e.name \in {"PendingUnwrapEvent", "ConfidentialTransfer"}
                        /\ (e.name = "ConfidentialTransfer" => e.amount = rec.actualAmount)

\* C35 witness: an unwrap by a user holding half a denomination recorded 0
C35_Witness ==
  /\ last.op = "unwrap"
  /\ Succeeded(last)
  /\ pendingUnwraps[last.ret].actualAmount = 0
  /\ \E u \in Users : /\ pendingUnwraps[last.ret].user = u
                      /\ balances[u] = denomination \div 2

\* the accounts whose balance is lower after the step than before it
Debited == {H \in Addresses : clear(balances'[H]) < clear(balances[H])}

\* S may move the tokens of H now: S is H, or the until value H set for S
\* has not passed
MayDebit(H, S) == S = H \/ timestamp <= operators[H][S]

\* in the current state, confidentialTransferFrom submitted by S for the
\* tokens of H is refused and changes nothing unless S may move them, and
\* then it lowers no balance but that of H
SpenderChecked ==
  \A S \in Users, H \in Addresses \ {ZeroAddress}, to \in Addresses, amt \in DebitAmounts :
     LET r == confidentialTransferFrom(Storage, S, H, to, amt, TRUE)
     IN /\ isOperator(Storage, H, S) <=> MayDebit(H, S)
        /\ ~MayDebit(H, S)
             => r.err = "ERC7984UnauthorizedSpender" /\ r.st = Storage /\ r.events = <<>>
        /\ \A o \in Addresses \ {H} : clear(r.st.balances[o]) >= clear(balances[o])
        /\ operators[Pool][S] = 0

\* the accounts a step may debit: the caller of unwrap, of
\* confidentialTransfer and of confidentialTransferAndCall (the `from` of
\* their first event), the `from` of confidentialTransferFrom (whose caller
\* SpenderChecked covers), the pool in finalizeUnwrap; no account otherwise
DebitedByStep ==
  Debited \subseteq
    (CASE last'.op \in {"unwrap", "confidentialTransfer", "confidentialTransferAndCall"}
            -> IF Succeeded(last') THEN {last'.events[1].from} \ {Pool} ELSE {}
       [] last'.op = "confidentialTransferFrom" -> {last'.key} \ {Pool}
       [] last'.op = "finalizeUnwrap" -> {Pool}
       [] OTHER -> {})

\* C36: a call submitted by S lowers the balance of H only if S = H or the
\* current time is at most the until value H set for S; confidentialTransferFrom
\* by any other caller fails with UnauthorizedSpender and changes nothing;
\* the pool's balance is lowered by finalizeUnwrap only, and no other call
\* lowers the balance of an account other than its caller or the holder it
\* names.
C36_DebitOnlyByHolderOrOperator ==
  []SpenderChecked /\ [][DebitedByStep]_vars

\* C36 witness: an approval given by a holder of tokens has expired and the
\* former operator's confidentialTransferFrom was refused
C36_Witness ==
  /\ last.op = "confidentialTransferFrom"
  /\ last.err = "ERC7984UnauthorizedSpender"
  /\ \E H \in Users, S \in Users \ {last.key} :
        /\ H = last.key
        /\ operators[H][S] > 0
        /\ timestamp > operators[H][S]
        /\ clear(balances[H]) > 0

\* the calls of wrap to the zero address a caller can make in the current
\* state: <<proof, root, nullifier hash, call shape>>
WrapsToZeroAddress ==
  {c \in UNION {{<<proof, root, n, a>> : proof \in ProofChoices(SignalsOf(root, n, a))} :
                  root \in RootArgs, n \in NullifierHashDomain,
                  a \in {b \in CallShapes : b[1] = ZeroAddress}} : TRUE}

\* C37: a wrap whose recipient is the zero address and whose nullifier hash,
\* root and proof pass the three checks fails with InvalidReceiver and
\* changes nothing: the nullifier hash stays unspent, and the note is still
\* accepted by wrap and by withdraw.
C37_WrapToZeroAddressRefused ==
  \A c \in WrapsToZeroAddress :
     LET a == c[4]
         r == wrap(Storage, c[1], c[2], a[1], c[3], a[2], a[3], a[4])
     IN wrapChecks(Storage, c[1], c[2], a[1], c[3], a[2], a[3], a[4]) = NoError
          => /\ r.err = "ERC7984InvalidReceiver"
             /\ r.st = Storage
             /\ r.events = <<>>
             /\ ~isSpent(r.st, c[3])
             /\ \A k \in LiveNotes(Storage) :
                   NoteNullifierHash(k) = c[3]
                     => /\ Claim("wrap", r.st, k).err = NoError
                        /\ Claim("withdraw", r.st, k).err = NoError

\* C37 witness: a wrap to the zero address was refused after passing the
\* checks, for a note that is a leaf and unspent
C37_Witness ==
  /\ last.op = "wrap"
  /\ last.err = "ERC7984InvalidReceiver"
  /\ ~isSpent(Storage, last.key)
  /\ \E k \in LiveNotes(Storage) : NoteNullifierHash(k) = last.key

\* the live pending-unwrap records
LiveIndices == {i \in PendingIndices : pendingUnwraps[i].user # ZeroAddress}

\* C38: for a live record and the decryption proof of its amount, the result
\* of finalizeUnwrap (error, storage, events) is the same for every sender;
\* when it succeeds the record is deleted, the event names the stored user
\* and commitment, a non-zero amount inserts the stored commitment and burns
\* the denomination from the pool, an amount of 0 inserts and burns nothing,
\* and no user's ledger balance or asset balance changes.
C38_FinalizeOutcomeIndependentOfSender ==
  \A i \in LiveIndices :
     LET rec == pendingUnwraps[i]
         amount == rec.actualAmount
         o == finalizeUnwrapBy(Storage, rec.user, i, amount, <<amount, amount>>)
     IN \A sender \in Users :
           LET r == finalizeUnwrapBy(Storage, sender, i, amount, <<amount, amount>>)
               e == r.events[Len(r.events)]
           IN /\ r = o
              /\ r.err = NoError
                   => /\ e.user = rec.user /\ e.commitment = rec.commitment
                      /\ e.actualAmount = amount /\ e.pendingUnwrapIndex = i
                      /\ e.name = IF amount # 0 THEN "UnwrapFinalized" ELSE "UnwrapFailed"
                      /\ r.st.pendingUnwraps[i] = EmptyPendingUnwrap
                      /\ r.st.leaves = IF amount # 0 THEN Append(leaves, rec.commitment)
                                       ELSE leaves
                      /\ BurnedIn(r.events) = (IF amount # 0 THEN denomination ELSE 0)
                      /\ \A u \in Users : r.st.balances[u] = balances[u]
                      /\ r.st.tokenBalance = tokenBalance
                      /\ r.st.nullifierHashes = nullifierHashes

\* C38 witness: a live record with a non-zero amount that an account other
\* than its user finalizes successfully
C38_Witness ==
  \E i \in LiveIndices : \E sender \in Users \ {pendingUnwraps[i].user} :
     LET amount == pendingUnwraps[i].actualAmount
         r == finalizeUnwrapBy(Storage, sender, i, amount, <<amount, amount>>)
     IN /\ amount = denomination
        /\ r.err = NoError
        /\ r.events[Len(r.events)].user # sender

\* the elements of the insert calls, in call order
InsertedElements == [k \in 1..Len(inserts) |-> inserts[k].element]

\* every call has run to its end
AllInsertsCompleted ==
  ~launching /\ \A k \in 1..Len(inserts) : inserts[k].status # "pending"

\* C39: insert calls started together get the leaf indices 0, 1, 2, ... in
\* call order, and once all of them have completed the tree (layers, root)
\* is the tree the same insertions build one after the other, whatever the
\* order in which the pending hashes resolved.
C39_ConcurrentInsertsAsSequential ==
  /\ \A k \in 1..Len(inserts) : inserts[k].index = k - 1
  /\ AllInsertsCompleted
       => /\ \A k \in 1..Len(inserts) : inserts[k].status = "done"
          /\ merkleTree._layers = MerkleTree_fromLeaves(LEVELS, InsertedElements)._layers
          /\ MerkleTree_getRoot(merkleTree)
               = MerkleTree_getRoot(MerkleTree_fromLeaves(LEVELS, InsertedElements))

\* the indices asked of getPath: the leaf positions and one beyond on each side
PathIndices == (0 - 1)..(Pow2(LEVELS) + 1)

\* C40: getPath(index) throws 'invalid index' for every index outside
\* [0, capacity), and for every index it accepts it returns exactly `levels`
\* siblings, each of them a defined value.
C40_GetPathChecksIndex ==
  \A index \in PathIndices :
    LET r == MerkleTree_getPathOf(ReferenceTree, index)
    IN /\ (index < 0 \/ index >= ReferenceTree.capacity) => r.err = "invalid index"
       /\ r.err = NoError =>
            /\ Len(r.path.siblings) = ReferenceTree.levels
            /\ \A k \in 1..Len(r.path.siblings) : r.path.siblings[k] # undefined

====
